---- MODULE Spec2Model ----
(***************************************************************************)
(* A model of the tool-requirements demo client (ServerHandler and the     *)
(* OAuth demo of src/examples/demo_requirements.ts) and of the OAuth       *)
(* demo server's scope gate (src/examples/server/toolWithOAuthServer.ts).  *)
(*                                                                         *)
(* Text is a sequence of character tokens, a Buffer a sequence of byte     *)
(* tokens.  One two-byte character (U+E9, bytes C3 A9) stands for every    *)
(* non-ASCII character of the stream; every other token is one ASCII       *)
(* byte/character, or one JSON lexeme that is never cut by the cases       *)
(* studied here.                                                           *)
(***************************************************************************)
EXTENDS Integers, Sequences, FiniteSets, TLC

\* ------------------------------------------------------------------------
\* Bounds of the model
\* ------------------------------------------------------------------------
MaxData  == 2     \* 'data' events delivered to one ServerHandler
MaxCalls == 2     \* waitForResponse calls on one ServerHandler
MaxSends == 1     \* send calls explored by the session specification
MaxLines == 3     \* lines of the stream explored by the codec specification
MaxToolCalls == 3 \* tools/call requests handled by the OAuth demo server

\* The ports of SimpleOAuthServer: toolWithOAuthServer constructs it on 3010, and
\* start() moves on to the next port while the port is below 3020.
FirstPort == 3010
LastPort == 3020

\* ------------------------------------------------------------------------
\* JavaScript values: request ids, Map keys, undefined
\* ------------------------------------------------------------------------
Num(n) == [t |-> "number", n |-> n, s |-> ""]
Str(s) == [t |-> "string", n |-> 0, s |-> s]
Undefined == [t |-> "undefined", n |-> 0, s |-> ""]

\* ToBoolean of a value: undefined, 0 and '' are falsy.
Truthy(v) ==
    /\ v.t # "undefined"
    /\ ~(v.t = "number" /\ v.n = 0)
    /\ ~(v.t = "string" /\ v.s = "")

SamplingMethod == "sampling/createMessage"

\* The ids a frame can carry and the keys a handler can be registered under.
Ids == {Num(0), Num(1), Num(2), Num(3), Num(4), Num(5), Str(SamplingMethod)}
Methods == {SamplingMethod, "initialize", "notifications/initialized",
            "tools/list", "tools/call", "notifications/message"}
Keys == Ids \cup {Str(m) : m \in Methods} \cup {Str("")}

\* ------------------------------------------------------------------------
\* Messages and their serialisation
\* ------------------------------------------------------------------------
\* The payload of a message: its params, result or error member.  "result:U+E9"
\* is a result whose text holds a non-ASCII character, "result:U+FFFD" one whose
\* text holds replacement characters.
ResultBodies == {"result", "result:init", "result:tools", "result:plaintools",
                 "result:badshape", "result:isError", "result:ok",
                 "result:U+E9", "result:U+FFFD"}
ParamBodies == {"params:init", "params:summarize", "params:deleteUser",
                "params:updateScopes", "params:sampling"}
Bodies == ResultBodies \cup ParamBodies \cup {"error", "none"}

Frame(id, method, body) == [id |-> id, method |-> method, body |-> body]
Frames == [id : Ids \cup {Undefined},
           method : {Str(m) : m \in Methods} \cup {Undefined},
           body : Bodies]

IsResponseShaped(f) == f.id # Undefined /\ f.method = Undefined
IsRequestShaped(f) == f.method # Undefined

\* The JSON text of each member (JSON.stringify); "jsonrpc":"2.0" is the same in
\* every message and is left out.
DigitTok(n) == <<"0", "1", "2", "3", "4", "5">>[n + 1]
DigitToks == {DigitTok(n) : n \in 0..5}
StringToks == Methods \cup {""}

IdText(id) ==
    IF id = Undefined THEN <<>>
    ELSE IF id.t = "number" THEN <<"id:", DigitTok(id.n)>>
    ELSE <<"id:$", id.s>>

MethodText(m) == IF m = Undefined THEN <<>> ELSE <<"method:", m.s>>

BodyText(b) ==
    IF b = "none" THEN <<>>
    ELSE IF b = "result:U+E9" THEN <<"result:", "U+E9">>
    ELSE IF b = "result:U+FFFD" THEN <<"result:", "U+FFFD">>
    ELSE <<b>>

Stringify(f) == <<"{">> \o IdText(f.id) \o MethodText(f.method) \o BodyText(f.body) \o <<"}">>

\* send(): JSON.stringify(message) + '\n'
Line(f) == Stringify(f) \o <<"NL">>

\* ------------------------------------------------------------------------
\* UTF-8: stdin.write(string) encodes, data.toString() decodes
\* ------------------------------------------------------------------------
RECURSIVE Encode(_)
Encode(text) ==
    IF text = <<>> THEN <<>>
    ELSE IF Head(text) = "U+E9" THEN <<"C3", "A9">> \o Encode(Tail(text))
    ELSE IF Head(text) = "U+FFFD" THEN <<"EF", "BF", "BD">> \o Encode(Tail(text))
    ELSE <<Head(text)>> \o Encode(Tail(text))

\* Buffer.toString(): a complete sequence decodes to its character, a lead byte
\* without its continuation and a continuation without its lead each decode to
\* U+FFFD.
RECURSIVE Decode(_)
Decode(bytes) ==
    IF bytes = <<>> THEN <<>>
    ELSE IF Head(bytes) = "C3" THEN
        IF Len(bytes) >= 2 /\ bytes[2] = "A9"
        THEN <<"U+E9">> \o Decode(SubSeq(bytes, 3, Len(bytes)))
        ELSE <<"U+FFFD">> \o Decode(Tail(bytes))
    ELSE IF Head(bytes) = "EF" THEN
        IF Len(bytes) >= 3 /\ bytes[2] = "BF" /\ bytes[3] = "BD"
        THEN <<"U+FFFD">> \o Decode(SubSeq(bytes, 4, Len(bytes)))
        ELSE <<"U+FFFD">> \o Decode(Tail(bytes))
    ELSE IF Head(bytes) \in {"A9", "BF", "BD"} THEN <<"U+FFFD">> \o Decode(Tail(bytes))
    ELSE <<Head(bytes)>> \o Decode(Tail(bytes))

\* ------------------------------------------------------------------------
\* String.split('\n'), String.trim(), JSON.parse
\* ------------------------------------------------------------------------
\* text.split('\n'): the pieces between the newlines, always at least one piece.
RECURSIVE SplitFrom(_, _, _)
SplitFrom(text, i, piece) ==
    IF i > Len(text) THEN <<piece>>
    ELSE IF text[i] = "NL" THEN <<piece>> \o SplitFrom(text, i + 1, <<>>)
    ELSE SplitFrom(text, i + 1, Append(piece, text[i]))

Split(text) == SplitFrom(text, 1, <<>>)

IsSpace(c) == c = "SP"

RECURSIVE TrimLeft(_)
TrimLeft(t) == IF t # <<>> /\ IsSpace(Head(t)) THEN TrimLeft(Tail(t)) ELSE t

RECURSIVE TrimRight(_)
TrimRight(t) ==
    IF t # <<>> /\ IsSpace(t[Len(t)]) THEN TrimRight(SubSeq(t, 1, Len(t) - 1)) ELSE t

Trim(t) == TrimRight(TrimLeft(t))

SyntaxError == [kind |-> "SyntaxError", frame |-> Frame(Undefined, Undefined, "none")]
NullValue == [kind |-> "null", frame |-> Frame(Undefined, Undefined, "none")]
ObjectValue(f) == [kind |-> "object", frame |-> f]

\* The members of an object, read left to right: [ok, id, method, body].
ParseMembers(t) ==
    LET hasNum == Len(t) >= 2 /\ t[1] = "id:" /\ t[2] \in DigitToks
        hasStr == Len(t) >= 2 /\ t[1] = "id:$" /\ t[2] \in StringToks
        id == IF hasNum THEN Num(CHOOSE n \in 0..5 : DigitTok(n) = t[2])
              ELSE IF hasStr THEN Str(t[2]) ELSE Undefined
        t2 == IF hasNum \/ hasStr THEN SubSeq(t, 3, Len(t)) ELSE t
        hasMethod == Len(t2) >= 2 /\ t2[1] = "method:" /\ t2[2] \in Methods
        method == IF hasMethod THEN Str(t2[2]) ELSE Undefined
        t3 == IF hasMethod THEN SubSeq(t2, 3, Len(t2)) ELSE t2
        one == Len(t3) = 1 /\ t3[1] \in (Bodies \ {"none", "result:U+E9", "result:U+FFFD"})
        text == Len(t3) >= 2 /\ t3[1] = "result:"
                /\ \A i \in 2..Len(t3) : t3[i] \in {"U+E9", "U+FFFD"}
        body == IF one THEN t3[1]
                ELSE IF text THEN (IF t3 = <<"result:", "U+E9">> THEN "result:U+E9"
                                   ELSE "result:U+FFFD")
                ELSE "none"
    IN  [ok |-> t3 = <<>> \/ one \/ text, frame |-> Frame(id, method, body)]

\* JSON.parse(line): white space around the value is allowed; the value is an
\* object, the literal null, or a SyntaxError is thrown.
JSONParse(line) ==
    LET t == Trim(line)
    IN  IF t = <<"null">> THEN NullValue
        ELSE IF Len(t) >= 2 /\ t[1] = "{" /\ t[Len(t)] = "}"
        THEN LET m == ParseMembers(SubSeq(t, 2, Len(t) - 1))
             IN  IF m.ok THEN ObjectValue(m.frame) ELSE SyntaxError
        ELSE SyntaxError

\* ------------------------------------------------------------------------
\* State
\* ------------------------------------------------------------------------
VARIABLES
    server,      \* ServerHandler.server: "null", or "spawned" once start() ran
    killed,      \* ChildProcess.killed: a signal was sent with kill()
    alive,       \* the peer process is running
    buffer,      \* ServerHandler.buffer: the text received and not yet split off
    handlers,    \* ServerHandler.handlers: Map from a key to a handler
    promises,    \* the promises returned by waitForResponse, in creation order
    stdin,       \* the byte lines written to the peer's stdin, in order
    routed,      \* one record per line the last 'data' event parsed and routed
    errlog,      \* number of console.error calls of processLine
    summaries,   \* number of showProblemSummary() calls
    thrown,      \* the error the last ServerHandler operation threw at its caller
    atExit,      \* what the session held at the moment the peer exited
    nData,       \* number of 'data' events handled so far
    stream,      \* the bytes the peer wrote that no 'data' event delivered yet
    original,    \* the lines the peer wrote, as it made them
    parsed,      \* the frames of every line parsed and routed so far, in order
    cut,         \* some 'data' event ended inside a multi-byte character
    splits,      \* some 'data' event ended inside a line
    pc,          \* runOAuthDemo: where the demo function stands
    clientScopes,   \* runOAuthDemo: the OAuth scopes the client holds
    hasRestrictedTools,  \* runOAuthDemo: the flag of the same name
    toolCalls,   \* the tools/call requests the client sent, with the scopes it held
    tools,       \* toolsResult.tools: the tool descriptors the peer listed
    report,      \* what the demo printed for each listed tool
    counts,      \* runRequirementsDemo: the three numbers of the summary
    demo,        \* the demo function pc stands in: error, requirements or oauth
    mainPc,      \* main(): none (a demo run on its own), running, exit0 or exit1
    cleaned,     \* cleanup() ran
    srvPc,       \* toolWithOAuthServer main(): starting, connected or exited
    currentScopes,  \* toolWithOAuthServer: currentScopes
    srvRead,     \* number of stdin lines the server has handled
    callLog,     \* the tool calls the server handled, with their results
    port,        \* SimpleOAuthServer.port
    httpServer,  \* SimpleOAuthServer.server: 0 for null, or the index of a listener
    listeners,   \* the http.Server objects app.listen() returned, in creation order
    starts,      \* the promises start() returned, in creation order
    retryTimers, \* the start() promises whose 100 ms retry timer is armed
    stopState,   \* the promise stop() returned: none, closing or resolved
    portState,   \* the environment: each port is free, busy or denied
    listenPassesError  \* the environment: app.listen hands a bind error to its callback

sessionVars == <<server, killed, alive, buffer, handlers, promises, stdin, routed,
                 errlog, summaries, thrown, atExit, nData>>
codecVars == <<stream, original, parsed, cut, splits>>
listingVars == <<tools, report, counts>>
mainVars == <<demo, mainPc, cleaned>>
clientVars == <<pc, clientScopes, hasRestrictedTools, toolCalls, listingVars, mainVars>>
portVars == <<port, httpServer, listeners, starts, retryTimers, stopState, portState,
              listenPassesError>>
serverVars == <<srvPc, currentScopes, srvRead, callLog, portVars>>

\* A handler of the Map: the closure of waitForResponse for promise p, or the
\* callback runErrorDemo registers for the peer's sampling request.
NoHandler == [kind |-> "none", p |-> 0]
Waiter(p) == [kind |-> "waiter", p |-> p]
SamplingCallback == [kind |-> "sampling", p |-> 0]

\* What a promise's awaiting caller receives.
Timeout == [kind |-> "Timeout", frame |-> Frame(Undefined, Undefined, "none")]
Response(f) == [kind |-> "response", frame |-> f]

\* new Promise(...) of waitForResponse, with its timer.
\*   state: pending | resolved | rejected    timer: armed | cleared | fired
\*   outcomes: what the awaiting caller was handed, in order
\*   calls: how often the closure registered for it was invoked
NewPromise(key) ==
    [key |-> key, state |-> "pending", timer |-> "armed", outcomes |-> <<>>, calls |-> 0]

\* A completion slot that fires every time it is resolved or rejected.
SettleEveryTime(p, outcome) ==
    [p EXCEPT !.state = IF outcome.kind = "Timeout" THEN "rejected" ELSE "resolved",
              !.outcomes = Append(@, outcome)]

\* resolve(v) / reject(e) of a promise: only a pending promise settles.
Settle(p, outcome) ==
    IF p.state = "pending"
    THEN [p EXCEPT !.state = IF outcome.kind = "Timeout" THEN "rejected" ELSE "resolved",
                   !.outcomes = Append(@, outcome)]
    ELSE p

\* clearTimeout(timer): an armed timer is cancelled, any other is left as it is.
ClearTimeout(p) == IF p.timer = "armed" THEN [p EXCEPT !.timer = "cleared"] ELSE p

\* responseObj.id || responseObj.method || ''
RouteKey(f) ==
    IF Truthy(f.id) THEN f.id
    ELSE IF Truthy(f.method) THEN f.method
    ELSE Str("")

\* this.handlers.get(key)
HandlerGet(hs, key) == IF key \in DOMAIN hs THEN hs[key] ELSE NoHandler

\* The mutable state processLine works on while handleData walks the lines.
Session(pr, ro, er, su) == [promises |-> pr, routed |-> ro, errlog |-> er, summaries |-> su]

\* handler(validatedResponse): the closure of waitForResponse clears its timer and
\* resolves its promise; the sampling callback shows the problem summary.
Invoke(st, h, f) ==
    IF h.kind = "waiter"
    THEN [st EXCEPT !.promises[h.p] =
              [Settle(ClearTimeout(@), Response(f)) EXCEPT !.calls = @ + 1]]
    ELSE IF h.kind = "sampling"
    THEN [st EXCEPT !.summaries = @ + 1]
    ELSE st

\* processLine(line).  The three validators hand back the parsed object or, when
\* both schemas refuse it, the raw object: id and method are those of the line.
ProcessLine(st, hs, line) ==
    LET v == JSONParse(line)
    IN  IF v.kind = "SyntaxError" THEN st
        ELSE IF v.kind = "null" THEN [st EXCEPT !.errlog = @ + 1]
        ELSE LET f == v.frame
                 key == RouteKey(f)
                 h == HandlerGet(hs, key)
                 rec == [frame |-> f, key |-> key, handler |-> h,
                         byId |-> HandlerGet(hs, f.id)]
             IN  Invoke([st EXCEPT !.routed = Append(@, rec)], h, f)

\* A loop over the lines that gives up at the first line that is not JSON.
RECURSIVE ProcessLinesUntilError(_, _, _)
ProcessLinesUntilError(st, hs, lines) ==
    IF lines = <<>> THEN st
    ELSE IF Trim(Head(lines)) = <<>> THEN ProcessLinesUntilError(st, hs, Tail(lines))
    ELSE IF JSONParse(Head(lines)).kind = "SyntaxError" THEN st
    ELSE ProcessLinesUntilError(ProcessLine(st, hs, Head(lines)), hs, Tail(lines))

\* for (const line of lines) if (line.trim()) this.processLine(line)
RECURSIVE ProcessLines(_, _, _)
ProcessLines(st, hs, lines) ==
    IF lines = <<>> THEN st
    ELSE ProcessLines(IF Trim(Head(lines)) # <<>> THEN ProcessLine(st, hs, Head(lines)) ELSE st,
                      hs, Tail(lines))

\* A buffer that forgets the unterminated piece.
PoppedRestDropped(text) == <<>>

\* this.buffer.split('\n') and lines.pop() || ''
PoppedLines(text) == SubSeq(Split(text), 1, Len(Split(text)) - 1)
PoppedRest(text) == Split(text)[Len(Split(text))]

\* handleData(data)
HandleData(data) ==
    LET text == buffer \o Decode(data)
        st == ProcessLines(Session(promises, <<>>, errlog, summaries), handlers,
                           PoppedLines(text))
    IN  /\ buffer' = PoppedRest(text)
        /\ promises' = st.promises
        /\ routed' = st.routed
        /\ errlog' = st.errlog
        /\ summaries' = st.summaries
            /\ nData' = nData + 1
        /\ UNCHANGED <<server, killed, alive, handlers, stdin, atExit, thrown>>

\* start(): spawn the peer and listen to its stdout.
Start ==
    /\ server = "null"
    /\ server' = "spawned"
    /\ alive' = TRUE
    /\ UNCHANGED <<killed, buffer, handlers, promises, stdin, routed, errlog, summaries, atExit, nData, thrown>>

\* this.handlers.set(key, h)
MapSet(hs, key, h) == [k \in DOMAIN hs \cup {key} |-> IF k = key THEN h ELSE hs[k]]

\* send(message): written when this.server?.stdin is there, dropped otherwise.
Written(f) == IF server # "null" THEN Append(stdin, Encode(Line(f))) ELSE stdin

Send(f) ==
    /\ stdin' = Written(f)
    /\ UNCHANGED <<server, killed, alive, buffer, handlers, promises, routed, errlog,
                   summaries, atExit, nData, thrown>>

\* onResponse(key, handler)
OnResponse(key, h) ==
    /\ handlers' = MapSet(handlers, key, h)
    /\ UNCHANGED <<server, killed, alive, buffer, promises, stdin, routed, errlog,
                   summaries, atExit, nData, thrown>>

\* waitForResponse(id, timeout): a new promise, its timer, and its closure
\* registered under id with onResponse.
Awaited(key) ==
    /\ promises' = Append(promises, NewPromise(key))
    /\ handlers' = MapSet(handlers, key, Waiter(Len(promises) + 1))

WaitForResponse(key) ==
    /\ Awaited(key)
    /\ UNCHANGED <<server, killed, alive, buffer, stdin, routed, errlog, summaries, atExit,
                   nData, thrown>>

\* A timer whose callback does not reject.
TimerFiresWithoutReject(i) ==
    /\ i \in DOMAIN promises
    /\ promises[i].timer = "armed"
    /\ promises' = [promises EXCEPT ![i].timer = "fired"]
    /\ UNCHANGED <<server, killed, alive, buffer, handlers, stdin, routed, errlog,
                   summaries, atExit, nData, thrown>>

\* The timer of promise i fires: reject(new Error('Timeout waiting for response')).
TimerFires(i) ==
    /\ i \in DOMAIN promises
    /\ promises[i].timer = "armed"
    /\ promises' = [promises EXCEPT ![i] = Settle([@ EXCEPT !.timer = "fired"], Timeout)]
    /\ UNCHANGED <<server, killed, alive, buffer, handlers, stdin, routed, errlog,
                   summaries, atExit, nData, thrown>>

\* kill(): SIGTERM to a spawned peer that was not sent a signal yet.
Kill ==
    /\ killed' = (killed \/ server = "spawned")
    /\ UNCHANGED <<server, alive, buffer, handlers, promises, stdin, routed, errlog,
                   summaries, atExit, nData, thrown>>

\* The peer process exits (after a signal or on its own).  start() listens to
\* stdout 'data' and to 'error' only: nothing of the session changes.
PeerExit ==
    /\ alive
    /\ alive' = FALSE
    /\ atExit' = [exited |-> TRUE,
                  pending |-> {i \in DOMAIN promises : promises[i].state = "pending"},
                  sends |-> Len(stdin)]
    /\ UNCHANGED <<server, killed, buffer, handlers, promises, stdin, routed, errlog, summaries,
                   nData, thrown>>

\* ------------------------------------------------------------------------
\* The session specification: one ServerHandler, its callers and its peer
\* ------------------------------------------------------------------------
\* The demo function not called, the server process not started.
DemoIdle ==
    /\ pc = "new"
    /\ clientScopes = {}
    /\ hasRestrictedTools = FALSE
    /\ toolCalls = <<>>
    /\ tools = <<>>
    /\ report = <<>>
    /\ counts = [found |-> 0, withRequirements |-> 0, withoutRequirements |-> 0]
    /\ demo = "oauth"
    /\ mainPc = "none"
    /\ cleaned = FALSE

\* A SimpleOAuthServer as its constructor leaves it, every port free.
PortIdle ==
    /\ port = FirstPort
    /\ httpServer = 0
    /\ listeners = <<>>
    /\ starts = <<>>
    /\ retryTimers = {}
    /\ stopState = "none"
    /\ portState = [p \in FirstPort..LastPort |-> "free"]
    /\ listenPassesError = FALSE

ScriptIdle ==
    /\ srvPc = "starting"
    /\ currentScopes = {}
    /\ srvRead = 0
    /\ callLog = <<>>

ServerIdle == ScriptIdle /\ PortIdle

CodecIdle ==
    /\ stream = <<>>
    /\ original = <<>>
    /\ parsed = <<>>
    /\ cut = FALSE
    /\ splits = FALSE

SessionInit ==
    /\ server = "null"
    /\ killed = FALSE
    /\ alive = FALSE
    /\ buffer = <<>>
    /\ handlers = [k \in {} |-> NoHandler]
    /\ promises = <<>>
    /\ stdin = <<>>
    /\ routed = <<>>
    /\ errlog = 0
    /\ summaries = 0
    /\ thrown = "none"
    /\ atExit = [exited |-> FALSE, pending |-> {}, sends |-> 0]
    /\ nData = 0
    /\ CodecIdle
    /\ DemoIdle
    /\ ServerIdle

\* What the peer writes in one piece in the session specification: one complete
\* line.  Responses under the ids in use, the peer's own sampling request under an
\* id of its choice, a notification, a line cut short, and the literal null.
PeerFrames ==
    {Frame(Num(0), Undefined, "result"),
     Frame(Num(3), Undefined, "result"),
     Frame(Str(SamplingMethod), Undefined, "result"),
     Frame(Num(0), Str(SamplingMethod), "params:sampling"),
     Frame(Num(3), Str(SamplingMethod), "params:sampling"),
     Frame(Undefined, Str("notifications/message"), "none")}

PeerChunks ==
    {Encode(Line(f)) : f \in PeerFrames} \cup {<<"{", "id:", "NL">>, <<"null", "NL">>}

\* The ids the callers wait under, and the message they send.
WaitKeys == {Num(0), Num(3)}
CallFrames == {Frame(Num(3), Str("tools/call"), "params:summarize")}

SessionStart == Start /\ UNCHANGED <<codecVars, clientVars, serverVars>>

SessionSend == \E f \in CallFrames : Len(stdin) < MaxSends /\ Send(f) /\ UNCHANGED <<codecVars, clientVars, serverVars>>

SessionOnResponse ==
    /\ HandlerGet(handlers, Str(SamplingMethod)) # SamplingCallback
    /\ OnResponse(Str(SamplingMethod), SamplingCallback)
    /\ UNCHANGED <<codecVars, clientVars, serverVars>>

SessionWait == \E key \in WaitKeys : Len(promises) < MaxCalls /\ WaitForResponse(key) /\ UNCHANGED <<codecVars, clientVars, serverVars>>

SessionTimer == \E i \in DOMAIN promises : TimerFires(i) /\ UNCHANGED <<codecVars, clientVars, serverVars>>

SessionData == \E c \in PeerChunks : alive /\ nData < MaxData /\ HandleData(c) /\ UNCHANGED <<codecVars, clientVars, serverVars>>

SessionKill == ~killed /\ server # "null" /\ Kill /\ UNCHANGED <<codecVars, clientVars, serverVars>>

SessionExit == PeerExit /\ UNCHANGED <<codecVars, clientVars, serverVars>>

vars == <<sessionVars, codecVars, clientVars, serverVars>>

SessionNext ==
    \/ SessionStart
    \/ SessionSend
    \/ SessionOnResponse
    \/ SessionWait
    \/ SessionTimer
    \/ SessionData
    \/ SessionKill
    \/ SessionExit

Spec == SessionInit /\ [][SessionNext]_vars

\* ------------------------------------------------------------------------
\* Properties of the session
\* ------------------------------------------------------------------------
ConnectionClosed == [kind |-> "ConnectionClosed", frame |-> Frame(Undefined, Undefined, "none")]

\* C1: every response-shaped frame (an id, no method) is handed to the handler
\* registered under exactly its id, whatever the id (0 included).
C1_ResponseRoutedById ==
    \A i \in DOMAIN routed :
        (IsResponseShaped(routed[i].frame) /\ routed[i].byId # NoHandler)
            => routed[i].handler = routed[i].byId

\* C2: the waiters registered under a request id and the handlers registered under
\* a method name are separate keyspaces: a request-shaped frame never reaches a
\* waiter of waitForResponse(id), a response-shaped frame never reaches the handler
\* registered under a method name.
C2_SeparateKeyspaces ==
    \A i \in DOMAIN routed :
        /\ IsRequestShaped(routed[i].frame) => routed[i].handler.kind # "waiter"
        /\ IsResponseShaped(routed[i].frame) => routed[i].handler.kind # "sampling"

\* What the caller of one waitForResponse holds: nothing while the promise is
\* pending; once resolved, the one frame routed to its key, its timer cancelled;
\* once rejected, the one Timeout of its timer.
C3_Outcome(p) ==
    /\ Len(p.outcomes) = (IF p.state = "pending" THEN 0 ELSE 1)
    /\ p.state = "resolved" =>
          /\ p.outcomes[1].kind = "response"
          /\ RouteKey(p.outcomes[1].frame) = p.key
          /\ p.timer = "cleared"
    /\ p.state = "rejected" => (p.outcomes = <<Timeout>> /\ p.timer = "fired")

LiveWaiterAt(k) ==
    /\ HandlerGet(handlers, k).kind = "waiter"
    /\ promises[HandlerGet(handlers, k).p].state = "pending"

\* C4: a waitForResponse for a key whose waiter has neither completed nor timed out
\* fails with DuplicateKey and leaves the first waiter registered.
C4_DuplicateKeyRefused ==
    [][\A k \in Keys :
          (/\ LiveWaiterAt(k)
           /\ Len(promises') = Len(promises) + 1
           /\ promises'[Len(promises')].key = k)
            => (thrown' = "DuplicateKey" /\ HandlerGet(handlers', k) = HandlerGet(handlers, k))]_vars

\* C5: once a waitForResponse has resolved or rejected, the Map holds no entry of
\* it, and a later frame with its id invokes no handler.
C5_WaiterRemoved ==
    \A i \in DOMAIN promises :
        promises[i].state # "pending" =>
            HandlerGet(handlers, promises[i].key) # Waiter(i)

\* C8: when the peer exits, every waiter pending at that moment fails once with
\* ConnectionClosed, and the session writes nothing more.
C8_ConnectionClosed ==
    atExit.exited =>
        /\ \A i \in atExit.pending : promises[i].outcomes = <<ConnectionClosed>>
        /\ Len(stdin) = atExit.sends

\* ------------------------------------------------------------------------
\* The codec specification: a stream of lines delivered in arbitrary chunks
\* ------------------------------------------------------------------------
\* A line the peer writes: a message (the JSON text of a frame), a line cut short
\* (not JSON), a blank line, or the JSON literal null.
MessageLine(f) == [kind |-> "message", text |-> Stringify(f), frame |-> f]
OtherLine(kind, text) == [kind |-> kind, text |-> text, frame |-> Frame(Undefined, Undefined, "none")]

CodecLines ==
    {MessageLine(Frame(Num(3), Undefined, "result:U+E9")),
     MessageLine(Frame(Undefined, Str("notifications/message"), "none")),
     OtherLine("malformed", <<"{", "id:">>),
     OtherLine("blank", <<"SP">>),
     OtherLine("null", <<"null">>)}

\* The bytes of lines i.. of the stream, each line ended by a newline.
RECURSIVE StreamFrom(_, _)
StreamFrom(lines, i) ==
    IF i > Len(lines) THEN <<>>
    ELSE Encode(lines[i].text \o <<"NL">>) \o StreamFrom(lines, i + 1)

\* The session the stream is delivered to: started, one waitForResponse(3) pending.
CodecInit ==
    /\ server = "spawned"
    /\ killed = FALSE
    /\ alive = TRUE
    /\ buffer = <<>>
    /\ handlers = MapSet([k \in {} |-> NoHandler], Num(3), Waiter(1))
    /\ promises = <<NewPromise(Num(3))>>
    /\ stdin = <<>>
    /\ routed = <<>>
    /\ errlog = 0
    /\ summaries = 0
    /\ thrown = "none"
    /\ atExit = [exited |-> FALSE, pending |-> {}, sends |-> 0]
    /\ nData = 0
    /\ original \in UNION {[1..n -> CodecLines] : n \in 1..MaxLines}
    /\ stream = StreamFrom(original, 1)
    /\ parsed = <<>>
    /\ cut = FALSE
    /\ splits = FALSE
    /\ DemoIdle
    /\ ServerIdle

\* The frames of the records handleData routed.
RoutedFrames(rs) == [i \in DOMAIN rs |-> rs[i].frame]

\* One 'data' event delivers the next n bytes of the stream.
CodecFeed ==
    \E n \in 1..Len(stream) :
        LET chunk == SubSeq(stream, 1, n)
            rest == SubSeq(stream, n + 1, Len(stream))
        IN  /\ HandleData(chunk)
            /\ stream' = rest
            /\ parsed' = parsed \o RoutedFrames(routed')
            /\ cut' = (cut \/ Decode(chunk) \o Decode(rest) # Decode(stream))
            /\ splits' = (splits \/ chunk[n] # "NL")
            /\ UNCHANGED <<original, clientVars, serverVars>>

CodecNext == CodecFeed

SpecCodec == CodecInit /\ [][CodecNext]_vars

\* What the stream holds, counted in bytes.
FullStream == StreamFrom(original, 1)
FedBytes == Len(FullStream) - Len(stream)
EndOfLine(i) == Len(FullStream) - Len(StreamFrom(original, i + 1))
CompleteLines == {i \in DOMAIN original : EndOfLine(i) <= FedBytes}
LastComplete == Cardinality(CompleteLines)
\* The text delivered after the last newline delivered.
UnterminatedTail ==
    Decode(SubSeq(FullStream, (IF LastComplete = 0 THEN 0 ELSE EndOfLine(LastComplete)) + 1,
                  FedBytes))

IsMessage(l) == l.kind = "message"
LineFrame(l) == l.frame
Map(f(_), seq) == [i \in DOMAIN seq |-> f(seq[i])]
\* The messages among the lines whose newline was delivered, in order.
CompleteMessages == Map(LineFrame, SelectSeq(SubSeq(original, 1, LastComplete), IsMessage))

RoutingOf(f) == [id |-> f.id, method |-> f.method]

\* ------------------------------------------------------------------------
\* Properties of the codec
\* ------------------------------------------------------------------------
AllMessages == \A i \in DOMAIN original : IsMessage(original[i])
CountOf(kind) == Cardinality({i \in CompleteLines : original[i].kind = kind})
\* How often the waiter of id 3 must have been invoked: once per frame routed to 3.
RoutedToThree == Cardinality({i \in DOMAIN parsed : RouteKey(parsed[i]) = Num(3)})

C7_MalformedReported ==
    /\ errlog >= CountOf("malformed")
    /\ Map(RoutingOf, parsed) = Map(RoutingOf, CompleteMessages)
    /\ promises[1].calls = RoutedToThree

\* C7, amended: a line that is not JSON is skipped without any diagnostic (only a
\* line that parses to a non-object is reported), reaches no handler, and the
\* well-formed lines before and after it are parsed and routed as if it were absent.
C7_MalformedSkipped ==
    /\ errlog = CountOf("null")
    /\ Map(RoutingOf, parsed) = Map(RoutingOf, CompleteMessages)
    /\ ~cut => parsed = CompleteMessages
    /\ promises[1].calls = RoutedToThree

\* C7 witness: a malformed line between two messages, all delivered.
C7_Witness ==
    /\ stream = <<>>
    /\ Len(original) = 3
    /\ IsMessage(original[1]) /\ original[2].kind = "malformed" /\ IsMessage(original[3])
    /\ splits
    /\ Len(parsed) = 2
    /\ errlog = 0

\* ------------------------------------------------------------------------
\* toolWithOAuthServer: the tools, their declared requirements, the scope gate
\* ------------------------------------------------------------------------
ScopeNames == {"user:read", "admin:users:delete", "accounts:read", "accounts:write"}

\* A requirement: a scope leaf, or allOf over requirements.
ScopeReq(v) == [type |-> "permission", subType |-> "scope", value |-> v]
AllOfReq(children) == [allOf |-> children]
AnyOfReq(children) == [anyOf |-> children]
NotReq(child) == [not |-> child]
ClaimReq(name, v) == [type |-> "permission", subType |-> "claim", name |-> name, value |-> v]
InputReq(property, v) ==
    [type |-> "permission", subType |-> "input", property |-> property, value |-> v]
CapabilityReq(name) == [type |-> "capability", name |-> name]

\* The requires of imageGenerator (toolWithRequirementsServer).
ImageGeneratorRequires ==
    << CapabilityReq("mcp:sampling"),
       AnyOfReq(<< ClaimReq("role", "admin"), ClaimReq("role", "owner"),
                   InputReq("imageRepo", "write") >>),
       ScopeReq("agent:sample_image"),
       ScopeReq("write:sample_storage") >>

\* The tools as registered, in registration order, each with its requires member
\* (_updateClientScopes declares none).
OAuthTools ==
    << [name |-> "readUserProfile", declared |-> TRUE,
        requires |-> <<ScopeReq("user:read")>>],
       [name |-> "deleteUser", declared |-> TRUE,
        requires |-> <<ScopeReq("admin:users:delete")>>],
       [name |-> "transferFunds", declared |-> TRUE,
        requires |-> <<AllOfReq(<<ScopeReq("accounts:read"), ScopeReq("accounts:write")>>)>>],
       [name |-> "_updateClientScopes", declared |-> FALSE, requires |-> <<>>] >>

ToolNames == {OAuthTools[i].name : i \in DOMAIN OAuthTools}

\* A tool result: isError, and the scopes the text names as missing.
ToolResult(isError, missing) == [isError |-> isError, missing |-> missing]

\* hasScope(requiredScope)
HasScope(scopes, requiredScope) == requiredScope \in scopes

\* A gate that checks the scope every client starts with.
DeleteUserChecksRead(scopes) ==
    IF ~HasScope(scopes, "user:read") THEN ToolResult(TRUE, <<"user:read">>)
    ELSE ToolResult(FALSE, <<>>)

\* A transferFunds that stops at the first scope it finds missing.
TransferFundsShortCircuit(scopes) ==
    IF ~HasScope(scopes, "accounts:read") THEN ToolResult(TRUE, <<"accounts:read">>)
    ELSE IF ~HasScope(scopes, "accounts:write") THEN ToolResult(TRUE, <<"accounts:write">>)
    ELSE ToolResult(FALSE, <<>>)

\* A readUserProfile that does not look at the scopes.
ReadUserProfileUnchecked(scopes) == ToolResult(FALSE, <<>>)

\* The handlers of the three gated tools.
ReadUserProfile(scopes) ==
    IF ~HasScope(scopes, "user:read") THEN ToolResult(TRUE, <<"user:read">>)
    ELSE ToolResult(FALSE, <<>>)

DeleteUser(scopes) ==
    IF ~HasScope(scopes, "admin:users:delete") THEN ToolResult(TRUE, <<"admin:users:delete">>)
    ELSE ToolResult(FALSE, <<>>)

TransferFunds(scopes) ==
    IF ~HasScope(scopes, "accounts:read") \/ ~HasScope(scopes, "accounts:write")
    THEN ToolResult(TRUE,
            (IF ~HasScope(scopes, "accounts:read") THEN <<"accounts:read">> ELSE <<>>)
            \o (IF ~HasScope(scopes, "accounts:write") THEN <<"accounts:write">> ELSE <<>>))
    ELSE ToolResult(FALSE, <<>>)

\* The result of a call of tool with the scope set as it is.
CallResult(tool, scopes) ==
    IF tool = "readUserProfile" THEN ReadUserProfile(scopes)
    ELSE IF tool = "deleteUser" THEN DeleteUser(scopes)
    ELSE IF tool = "transferFunds" THEN TransferFunds(scopes)
    ELSE ToolResult(FALSE, <<>>)

\* A server that grants the scopes a denied call was missing.
ScopesAfterGrantingMissing(tool, arg, scopes) ==
    IF tool = "_updateClientScopes" THEN arg
    ELSE scopes \cup {CallResult(tool, scopes).missing[i] :
                        i \in DOMAIN CallResult(tool, scopes).missing}

\* An update that adds the new scopes to the ones held.
ScopesAfterMerging(tool, arg, scopes) ==
    IF tool = "_updateClientScopes" THEN scopes \cup arg ELSE scopes

\* The scope set after a call: _updateClientScopes replaces it by its argument, the
\* other tools leave it alone.
ScopesAfter(tool, arg, scopes) == IF tool = "_updateClientScopes" THEN arg ELSE scopes

\* One entry of the call log.
LogEntry(tool, arg, scopes) ==
    [tool |-> tool, arg |-> arg, scopes |-> scopes,
     isError |-> CallResult(tool, scopes).isError,
     missing |-> CallResult(tool, scopes).missing]

\* main(): await oauthServer.start(), then currentScopes = ["user:read"], then
\* connect the transport.
ServerMain ==
    /\ srvPc = "starting"
    /\ srvPc' = "connected"
    /\ currentScopes' = {"user:read"}
    /\ UNCHANGED <<srvRead, callLog, portVars>>

\* main(): oauthServer.start() rejects, the process exits with code 1.
ServerMainFails ==
    /\ srvPc = "starting"
    /\ srvPc' = "exited"
    /\ UNCHANGED <<currentScopes, srvRead, callLog, portVars>>

\* A tools/call request reaches the handler of its tool.
ServerCall(tool, arg) ==
    /\ srvPc = "connected"
    /\ currentScopes' = ScopesAfter(tool, arg, currentScopes)
    /\ callLog' = Append(callLog, LogEntry(tool, arg, currentScopes))

\* The server specification: the server alone, called in any order with any
\* arguments.
ServerInit ==
    /\ server = "null"
    /\ killed = FALSE
    /\ alive = FALSE
    /\ buffer = <<>>
    /\ handlers = [k \in {} |-> NoHandler]
    /\ promises = <<>>
    /\ stdin = <<>>
    /\ routed = <<>>
    /\ errlog = 0
    /\ summaries = 0
    /\ thrown = "none"
    /\ atExit = [exited |-> FALSE, pending |-> {}, sends |-> 0]
    /\ nData = 0
    /\ CodecIdle
    /\ DemoIdle
    /\ ServerIdle

ServerStarts == ServerMain /\ UNCHANGED <<sessionVars, codecVars, clientVars>>

ServerStartFails == ServerMainFails /\ UNCHANGED <<sessionVars, codecVars, clientVars>>

ServerGatedCall ==
    \E tool \in ToolNames \ {"_updateClientScopes"} :
        /\ Len(callLog) < MaxToolCalls
        /\ ServerCall(tool, {})
        /\ UNCHANGED <<srvPc, srvRead, portVars, sessionVars, codecVars, clientVars>>

ServerUpdateScopes ==
    \E arg \in SUBSET ScopeNames :
        /\ Len(callLog) < MaxToolCalls
        /\ ServerCall("_updateClientScopes", arg)
        /\ UNCHANGED <<srvPc, srvRead, portVars, sessionVars, codecVars, clientVars>>

ServerNext == ServerStarts \/ ServerStartFails \/ ServerGatedCall \/ ServerUpdateScopes

SpecServer == ServerInit /\ [][ServerNext]_vars

\* ------------------------------------------------------------------------
\* Properties of the server
\* ------------------------------------------------------------------------
\* The argument of the last _updateClientScopes before call i, or the scopes main()
\* sets when there was none.
UpdatesBefore(i) == {j \in 1..(i - 1) : callLog[j].tool = "_updateClientScopes"}
ScopesInForce(i) ==
    IF UpdatesBefore(i) = {} THEN {"user:read"}
    ELSE callLog[CHOOSE j \in UpdatesBefore(i) : \A k \in UpdatesBefore(i) : k <= j].arg

\* C10: a deleteUser call returns a non-error result exactly when
\* admin:users:delete is in the scope set at the moment it is handled: an isError
\* result under [user:read], a non-error result once an update has added the scope.
C10_ScopeGate ==
    \A i \in DOMAIN callLog :
        callLog[i].tool = "deleteUser" =>
            (callLog[i].isError <=> "admin:users:delete" \notin ScopesInForce(i))

\* C10 witness: deleteUser refused under [user:read], the scopes updated to
\* [user:read, admin:users:delete], deleteUser accepted.
C10_Witness ==
    /\ Len(callLog) = 3
    /\ callLog[1].tool = "deleteUser" /\ callLog[1].isError
    /\ callLog[2].tool = "_updateClientScopes"
    /\ callLog[2].arg = {"user:read", "admin:users:delete"}
    /\ callLog[3].tool = "deleteUser" /\ ~callLog[3].isError

\* ------------------------------------------------------------------------
\* runOAuthDemo: the client of the OAuth demo server
\* ------------------------------------------------------------------------
\* createMessage.init / initialized / toolsList / toolCall
InitMessage == Frame(Num(1), Str("initialize"), "params:init")
InitializedMessage == Frame(Undefined, Str("notifications/initialized"), "none")
\* A tools/list request under the id of the initialize request.
ToolsListMessageSameId == Frame(Num(1), Str("tools/list"), "none")

ToolsListMessage == Frame(Num(2), Str("tools/list"), "none")
ToolCallMessage(name, id) ==
    Frame(id, Str("tools/call"),
          IF name = "deleteUser" THEN "params:deleteUser"
          ELSE IF name = "_updateClientScopes" THEN "params:updateScopes"
          ELSE "params:summarize")

\* The scopes the demo holds at first, and a renegotiation that asks for nothing new.
InitialScopes == {"user:read"}
RenegotiatedScopesUnchanged == {"user:read"}

\* The scopes the demo asks for, and holds once the update is acknowledged.
RenegotiatedScopes == {"user:read", "admin:users:delete"}

\* The strings of JSON.stringify(requirement).
RECURSIVE ReqStrings(_)
ReqStrings(req) ==
    IF "allOf" \in DOMAIN req
    THEN {"allOf"} \cup UNION {ReqStrings(req.allOf[i]) : i \in DOMAIN req.allOf}
    ELSE IF "anyOf" \in DOMAIN req
    THEN {"anyOf"} \cup UNION {ReqStrings(req.anyOf[i]) : i \in DOMAIN req.anyOf}
    ELSE IF "not" \in DOMAIN req
    THEN {"not"} \cup ReqStrings(req.not)
    ELSE DOMAIN req \cup {req[k] : k \in DOMAIN req}

\* String.includes(needle) for the two needles of the demo.
Includes(str, needle) ==
    IF needle = "accounts:" THEN str \in {"accounts:read", "accounts:write"}
    ELSE str = needle

\* JSON.stringify(tool.requires).includes(needle)
RequiresMention(tool, needle) ==
    \E i \in DOMAIN tool.requires : \E str \in ReqStrings(tool.requires[i]) : Includes(str, needle)

\* tool.name.startsWith('_')
InternalNames == {"_updateClientScopes", "_internal"}
IsInternal(tool) == tool.name \in InternalNames

\* tool.requires?.length && tool.requires.length > 0
HasRequirements(tool) == tool.declared /\ Len(tool.requires) > 0

\* What the forEach prints as the status of one listed tool.
CannotCall == "Cannot call - missing required OAuth scopes"
CanCall == "Can call with current OAuth scopes"
CanCallNone == "Can call (no OAuth requirements)"
ToolStatus(tool) ==
    IF IsInternal(tool) THEN "skipped"
    ELSE IF HasRequirements(tool)
    THEN (IF RequiresMention(tool, "admin:users:delete") \/ RequiresMention(tool, "accounts:")
          THEN CannotCall ELSE CanCall)
    ELSE CanCallNone

\* The forEach over the listed tools: hasRestrictedTools.
HasRestricted(list) ==
    \E i \in DOMAIN list :
        /\ ~IsInternal(list[i])
        /\ HasRequirements(list[i])
        /\ (RequiresMention(list[i], "admin:users:delete")
            \/ RequiresMention(list[i], "accounts:"))

\* The promise the demo awaits: the last one it made.
LastPromise == promises[Len(promises)]
AwaitStates == {"await1", "await2", "await3", "await4", "await5"}
Resolved == pc \in AwaitStates /\ LastPromise.state = "resolved"
Rejected == pc \in AwaitStates /\ LastPromise.state = "rejected"
ResolvedBody == LastPromise.outcomes[1].frame.body
\* The continuation of the await is a microtask: it runs before any other event.
Resumable == Resolved \/ Rejected

\* Between handler.send(message) and handler.waitForResponse(id) the demo is in
\* the middle of a synchronous run.
SentStates == <<"sent1", "sent2", "sent3", "sent4", "sent5">>
AwaitOf == <<"await1", "await2", "await3", "await4", "await5">>
Sent == \E n \in DOMAIN SentStates : pc = SentStates[n]

\* A demo that yields to the event loop between the send and the wait.
BusyUntilAwaitOnly == Resumable

\* main(): the process has exited, or the demo function has returned or thrown
\* and what follows it runs to process.exit without a timer in between.
MainBusy ==
    \/ mainPc \in {"exit0", "exit1"}
    \/ mainPc = "running" /\ (pc = "failed" \/ (pc = "done" /\ demo = "oauth"))

\* Code of the demo is running or about to run: no event is handled.
Busy == Resumable \/ Sent \/ pc = "called" \/ MainBusy

\* A finally block that leaves the peer running.
FinallySkipsKill == UNCHANGED sessionVars

\* finally { handler.kill() }
Finally ==
    /\ killed' = (killed \/ server = "spawned")
    /\ UNCHANGED <<server, alive, buffer, handlers, promises, stdin, routed, errlog,
                   summaries, thrown, atExit, nData>>

ToolCallRecord(name, id) == [id |-> id, tool |-> name, scopes |-> clientScopes]

DemoStart ==
    /\ pc = "new"
    /\ pc' = "starting"
    /\ Start
    /\ UNCHANGED <<clientScopes, hasRestrictedTools, toolCalls, listingVars, mainVars, codecVars, serverVars>>

DemoInitialize ==
    /\ pc = "starting"
    /\ pc' = "sent1"
    /\ Send(InitMessage)
    /\ UNCHANGED <<clientScopes, hasRestrictedTools, toolCalls, listingVars, mainVars, codecVars, serverVars>>

\* await handler.waitForResponse(n), right after the send of request n.
DemoWaitForResponse ==
    \E n \in DOMAIN SentStates :
        /\ pc = SentStates[n]
        /\ pc' = AwaitOf[n]
        /\ WaitForResponse(Num(n))
        /\ UNCHANGED <<clientScopes, hasRestrictedTools, toolCalls, listingVars, mainVars, codecVars,
                       serverVars>>

\* The notification sent without waiting for the initialize response.
DemoInitializedUnawaited ==
    /\ pc = "await1"
    /\ pc' = "sleep1"
    /\ clientScopes' = IF demo = "oauth" THEN InitialScopes ELSE clientScopes
    /\ Send(InitializedMessage)
    /\ UNCHANGED <<hasRestrictedTools, toolCalls, listingVars, mainVars, codecVars, serverVars>>

DemoInitialized ==
    /\ pc = "await1" /\ Resolved /\ ResolvedBody = "result:init"
    /\ pc' = "sleep1"
    /\ clientScopes' = IF demo = "oauth" THEN InitialScopes ELSE clientScopes
    /\ Send(InitializedMessage)
    /\ UNCHANGED <<hasRestrictedTools, toolCalls, listingVars, mainVars, codecVars, serverVars>>

DemoListTools ==
    /\ pc = "sleep1"
    /\ pc' = "sent2"
    /\ Send(ToolsListMessage)
    /\ UNCHANGED <<clientScopes, hasRestrictedTools, toolCalls, listingVars, mainVars, codecVars, serverVars>>

DemoToolsListed ==
    /\ demo = "oauth"
    /\ pc = "await2" /\ Resolved /\ ResolvedBody = "result:tools"
    /\ tools' = OAuthTools
    /\ report' = [i \in DOMAIN tools' |-> ToolStatus(tools'[i])]
    /\ hasRestrictedTools' = HasRestricted(tools')
    /\ IF hasRestrictedTools'
       THEN pc' = "sleep2" /\ UNCHANGED sessionVars
       ELSE pc' = "done" /\ Finally
    /\ UNCHANGED <<clientScopes, toolCalls, counts, mainVars, codecVars, serverVars>>

DemoCallDeleteUser ==
    /\ pc = "sleep2"
    /\ pc' = "sent3"
    /\ Send(ToolCallMessage("deleteUser", Num(3)))
    /\ toolCalls' = Append(toolCalls, ToolCallRecord("deleteUser", Num(3)))
    /\ UNCHANGED <<clientScopes, hasRestrictedTools, listingVars, mainVars, codecVars, serverVars>>

DemoCallAnswered ==
    /\ demo = "oauth"
    /\ pc = "await3" /\ Resolved
    /\ IF ResolvedBody = "result:isError"
       THEN pc' = "sleep3" /\ UNCHANGED sessionVars
       ELSE pc' = "done" /\ Finally
    /\ UNCHANGED <<clientScopes, hasRestrictedTools, toolCalls, listingVars, mainVars, codecVars, serverVars>>

DemoUpdateScopes ==
    /\ pc = "sleep3"
    /\ pc' = "sent4"
    /\ Send(ToolCallMessage("_updateClientScopes", Num(4)))
    /\ toolCalls' = Append(toolCalls, ToolCallRecord("_updateClientScopes", Num(4)))
    /\ UNCHANGED <<clientScopes, hasRestrictedTools, listingVars, mainVars, codecVars, serverVars>>

\* The retry path without the await of the response to the scope update.
DemoScopesUpdatedUnawaited ==
    /\ pc = "await4"
    /\ pc' = "sleep4"
    /\ clientScopes' = RenegotiatedScopes
    /\ UNCHANGED <<hasRestrictedTools, toolCalls, sessionVars, listingVars, mainVars, codecVars, serverVars>>

DemoScopesUpdated ==
    /\ pc = "await4" /\ Resolved
    /\ pc' = "sleep4"
    /\ clientScopes' = RenegotiatedScopes
    /\ UNCHANGED <<hasRestrictedTools, toolCalls, sessionVars, listingVars, mainVars, codecVars, serverVars>>

DemoRetryDeleteUser ==
    /\ pc = "sleep4"
    /\ pc' = "sent5"
    /\ Send(ToolCallMessage("deleteUser", Num(5)))
    /\ toolCalls' = Append(toolCalls, ToolCallRecord("deleteUser", Num(5)))
    /\ UNCHANGED <<clientScopes, hasRestrictedTools, listingVars, mainVars, codecVars, serverVars>>

DemoRetryAnswered ==
    /\ pc = "await5" /\ Resolved
    /\ pc' = "done"
    /\ Finally
    /\ UNCHANGED <<clientScopes, hasRestrictedTools, toolCalls, listingVars, mainVars, codecVars, serverVars>>

\* An await rejects (timeout), or a validator throws on the result received: the
\* catch block rethrows, the finally block kills the peer.
DemoThrows ==
    /\ \/ Rejected /\ ~(demo = "error" /\ pc = "await3")
       \/ pc = "await1" /\ Resolved /\ ResolvedBody # "result:init"
       \/ pc = "await2" /\ Resolved /\ ResolvedBody # "result:tools"
    /\ pc' = "failed"
    /\ Finally
    /\ UNCHANGED <<clientScopes, hasRestrictedTools, toolCalls, listingVars, mainVars, codecVars, serverVars>>

\* ------------------------------------------------------------------------
\* The OAuth demo specification: runOAuthDemo against toolWithOAuthServer
\* ------------------------------------------------------------------------
\* The tool and the argument a tools/call request names.
RequestedTool(f) ==
    IF f.body = "params:deleteUser" THEN "deleteUser"
    ELSE IF f.body = "params:updateScopes" THEN "_updateClientScopes"
    ELSE "unknown"
RequestedArg(f) == IF f.body = "params:updateScopes" THEN RenegotiatedScopes ELSE {}

\* The message on one line written to the server's stdin.
ReadMessage(bytes) == JSONParse(Split(Decode(bytes))[1]).frame

\* The answer of the server to request f, or Undefined for a notification.
ResponseTo(f, scopes) ==
    IF f.method = Str("initialize") THEN Frame(f.id, Undefined, "result:init")
    ELSE IF f.method = Str("tools/list") THEN Frame(f.id, Undefined, "result:tools")
    ELSE IF f.method = Str("tools/call")
    THEN Frame(f.id, Undefined,
               IF CallResult(RequestedTool(f), scopes).isError THEN "result:isError"
               ELSE "result:ok")
    ELSE Undefined

\* The server reads the next line of its stdin, dispatches it and writes the
\* answer to its stdout.
OAuthPeerHandles ==
    /\ demo = "oauth"
    /\ alive /\ srvPc = "connected" /\ ~Busy
    /\ srvRead < Len(stdin)
    /\ LET f == ReadMessage(stdin[srvRead + 1])
           r == ResponseTo(f, currentScopes)
       IN  /\ srvRead' = srvRead + 1
           /\ stream' = IF r = Undefined THEN stream ELSE stream \o Encode(Line(r))
           /\ IF f.method = Str("tools/call")
              THEN ServerCall(RequestedTool(f), RequestedArg(f))
              ELSE UNCHANGED <<currentScopes, callLog>>
    /\ UNCHANGED <<srvPc, portVars, original, parsed, cut, splits, sessionVars, clientVars>>

OAuthServerStarts ==
    /\ demo = "oauth"
    /\ alive /\ ~Busy
    /\ ServerMain
    /\ UNCHANGED <<sessionVars, codecVars, clientVars>>

OAuthServerFails ==
    /\ demo = "oauth"
    /\ ~Busy
    /\ ServerMainFails
    /\ PeerExit
    /\ UNCHANGED <<codecVars, clientVars>>

\* The peer exits on the signal kill() sent.
OAuthPeerKilled ==
    /\ killed /\ ~Busy
    /\ srvPc' = "exited"
    /\ PeerExit
    /\ UNCHANGED <<currentScopes, srvRead, callLog, portVars, codecVars, clientVars>>

\* One 'data' event delivers the next n bytes of what the peer wrote.
OAuthData ==
    /\ ~Busy
    /\ \E n \in 1..Len(stream) :
        /\ stream' = SubSeq(stream, n + 1, Len(stream))
        /\ HandleData(SubSeq(stream, 1, n))
    /\ UNCHANGED <<original, parsed, cut, splits, clientVars, serverVars>>

OAuthTimer ==
    /\ ~Busy
    /\ \E i \in DOMAIN promises : TimerFires(i)
    /\ UNCHANGED <<codecVars, clientVars, serverVars>>

OAuthInit == SessionInit

OAuthNext ==
    \/ DemoStart \/ DemoInitialize \/ DemoWaitForResponse \/ DemoInitialized \/ DemoListTools
    \/ DemoToolsListed \/ DemoCallDeleteUser \/ DemoCallAnswered
    \/ DemoUpdateScopes \/ DemoScopesUpdated \/ DemoRetryDeleteUser
    \/ DemoRetryAnswered \/ DemoThrows
    \/ OAuthPeerHandles \/ OAuthServerStarts \/ OAuthServerFails
    \/ OAuthPeerKilled \/ OAuthData \/ OAuthTimer

SpecOAuth == OAuthInit /\ [][OAuthNext]_vars

\* ------------------------------------------------------------------------
\* Properties of the OAuth demo
\* ------------------------------------------------------------------------
\* The reference evaluation of a requirement against a caller context: a leaf by
\* what the context holds, allOf when every child is satisfied, anyOf when some
\* child is, not when its child is not.
LeafHolds(req, ctx) ==
    IF req.type = "capability" THEN req.name \in ctx.capabilities
    ELSE IF req.subType = "scope" THEN req.value \in ctx.scopes
    ELSE IF req.subType = "claim" THEN <<req.name, req.value>> \in ctx.claims
    ELSE IF req.subType = "input" THEN <<req.property, req.value>> \in ctx.inputs
    ELSE FALSE

RECURSIVE Evaluate(_, _)
Evaluate(req, ctx) ==
    IF "allOf" \in DOMAIN req
    THEN \A i \in DOMAIN req.allOf : Evaluate(req.allOf[i], ctx)
    ELSE IF "anyOf" \in DOMAIN req
    THEN \E i \in DOMAIN req.anyOf : Evaluate(req.anyOf[i], ctx)
    ELSE IF "not" \in DOMAIN req
    THEN ~Evaluate(req.not, ctx)
    ELSE LeafHolds(req, ctx)

\* The context of a caller that holds scopes and nothing else.
ScopeContext(scopes) ==
    [capabilities |-> {}, scopes |-> scopes, claims |-> {}, inputs |-> {}]
Satisfied(req, scopes) == Evaluate(req, ScopeContext(scopes))

\* The requirements the server declares for a tool.
DeclaredRequires(name) == (CHOOSE i \in DOMAIN OAuthTools : OAuthTools[i].name = name)
CallSatisfied(c) ==
    \A i \in DOMAIN OAuthTools[DeclaredRequires(c.tool)].requires :
        Satisfied(OAuthTools[DeclaredRequires(c.tool)].requires[i], c.scopes)

\* The tools/call requests written to the peer, in order.
SentFrames == [i \in DOMAIN stdin |-> ReadMessage(stdin[i])]
SentCalls == SelectSeq(SentFrames, LAMBDA f : f.method = Str("tools/call"))
CallsLogged ==
    /\ Len(SentCalls) = Len(toolCalls)
    /\ \A i \in DOMAIN toolCalls :
        /\ SentCalls[i].id = toolCalls[i].id
        /\ RequestedTool(SentCalls[i]) = toolCalls[i].tool

MaxTools == 2

\* The tool descriptors a peer can list: a name, and requires absent, empty, one
\* requirement over scope leaves, or two scope leaves.
LeafPool == <<"user:read", "admin:users:delete", "accounts:read", "profile:write">>
Leaves == {ScopeReq(LeafPool[i]) : i \in DOMAIN LeafPool}
LeafPairs ==
    {<<ScopeReq(LeafPool[i]), ScopeReq(LeafPool[j])>> :
        i \in DOMAIN LeafPool, j \in DOMAIN LeafPool} \ {<<l, l>> : l \in Leaves}
Trees ==
    Leaves \cup {NotReq(l) : l \in Leaves}
           \cup {AnyOfReq(p) : p \in LeafPairs} \cup {AllOfReq(p) : p \in LeafPairs}
RequiresOptions ==
    {<<>>} \cup {<<t>> : t \in Trees} \cup {<<l, NotReq(l)>> : l \in Leaves}
           \cup {ImageGeneratorRequires, <<ImageGeneratorRequires[2]>>}
ToolNamePool == {"tool", "_internal"}
Descriptors ==
    [name : ToolNamePool, declared : {TRUE}, requires : RequiresOptions]
    \cup [name : ToolNamePool, declared : {FALSE}, requires : {<<>>}]
Listings == UNION {[1..n -> Descriptors] : n \in 1..MaxTools}

\* display.tool(tool, index): the line printed about the requirements.
RequirementsNone == "Requirements: None (can run in any environment)"
DisplayTool(tool) == IF HasRequirements(tool) THEN "Requirements:" ELSE RequirementsNone

\* The filter of 'Tools without requirements' that tests for absence only.
WithoutRequirementsAbsentOnly(tool) == ~tool.declared

\* !t.requires || t.requires.length === 0
WithoutRequirements(tool) == ~tool.declared \/ Len(tool.requires) = 0

\* The three numbers of the summary of runRequirementsDemo:
\* toolsResult.tools.length and the lengths of the two filters.
Summary(list) ==
    [found |-> Len(list),
     withRequirements |-> Cardinality({i \in DOMAIN list : HasRequirements(list[i])}),
     withoutRequirements |-> Cardinality({i \in DOMAIN list : WithoutRequirements(list[i])})]

\* A tools/list result arrived and passed validators.tools; the client holds
\* [user:read].
ListingInit ==
    /\ server = "spawned"
    /\ killed = FALSE
    /\ alive = TRUE
    /\ buffer = <<>>
    /\ handlers = [k \in {} |-> NoHandler]
    /\ promises = <<>>
    /\ stdin = <<>>
    /\ routed = <<>>
    /\ errlog = 0
    /\ summaries = 0
    /\ thrown = "none"
    /\ atExit = [exited |-> FALSE, pending |-> {}, sends |-> 0]
    /\ nData = 0
    /\ CodecIdle
    /\ ServerIdle
    /\ pc = "listed"
    /\ clientScopes = InitialScopes
    /\ hasRestrictedTools = FALSE
    /\ toolCalls = <<>>
    /\ tools \in Listings
    /\ report = <<>>
    /\ counts = [found |-> 0, withRequirements |-> 0, withoutRequirements |-> 0]
    /\ demo = "oauth"
    /\ mainPc = "none"
    /\ cleaned = FALSE

\* runOAuthDemo: the forEach over the listed tools.
ListingStatus ==
    /\ pc = "listed"
    /\ pc' = "classified"
    /\ report' = [i \in DOMAIN tools |-> ToolStatus(tools[i])]
    /\ hasRestrictedTools' = HasRestricted(tools)
    /\ UNCHANGED <<clientScopes, toolCalls, tools, counts, sessionVars, mainVars, codecVars, serverVars>>

\* runRequirementsDemo: display.tool for each listed tool, then the summary.
ListingSummary ==
    /\ pc = "listed"
    /\ pc' = "summarised"
    /\ report' = [i \in DOMAIN tools |-> DisplayTool(tools[i])]
    /\ counts' = Summary(tools)
    /\ UNCHANGED <<clientScopes, hasRestrictedTools, toolCalls, tools, sessionVars, mainVars, codecVars,
                   serverVars>>

ListingNext == ListingStatus \/ ListingSummary

SpecListing == ListingInit /\ [][ListingNext]_vars

\* ------------------------------------------------------------------------
\* Properties of the listing
\* ------------------------------------------------------------------------
\* The conjunction of the top-level requirements of a tool.
RequiresSatisfied(tool, scopes) ==
    \A i \in DOMAIN tool.requires : Satisfied(tool.requires[i], scopes)

\* The tools whose requirements are built from scope leaves.
RECURSIVE LeafSet(_)
LeafSet(req) ==
    IF "allOf" \in DOMAIN req THEN UNION {LeafSet(req.allOf[i]) : i \in DOMAIN req.allOf}
    ELSE IF "anyOf" \in DOMAIN req THEN UNION {LeafSet(req.anyOf[i]) : i \in DOMAIN req.anyOf}
    ELSE IF "not" \in DOMAIN req THEN LeafSet(req.not)
    ELSE {req}
ScopeLeavesOnly(tool) ==
    \A i \in DOMAIN tool.requires :
        \A l \in LeafSet(tool.requires[i]) : l.type = "permission" /\ l.subType = "scope"

\* C11: the status the client prints for a listed tool is a 'can call' status
\* exactly when the conjunction of the tool's top-level requirements is
\* satisfied by the scopes the client holds.
C11_VerdictIsEvaluation ==
    pc = "classified" =>
        \A i \in DOMAIN tools :
            (report[i] # "skipped" /\ ScopeLeavesOnly(tools[i])) =>
                (report[i] \in {CanCall, CanCallNone}
                    <=> RequiresSatisfied(tools[i], clientScopes))

\* The tools whose requires is absent or empty.
NoRequirements(tool) == ~tool.declared \/ tool.requires = <<>>

\* C12: a tool whose requires is absent and a tool whose requires is empty are
\* treated alike and as always invocable: display.tool reports both as having no
\* requirements, the OAuth listing reports both as callable, and in the summary
\* the tools with requirements and the tools without add up to the tools found.
C12_AbsentIsEmpty ==
    /\ pc = "summarised" =>
        /\ \A i \in DOMAIN tools : NoRequirements(tools[i]) <=> report[i] = RequirementsNone
        /\ counts.found = Len(tools)
        /\ counts.withRequirements + counts.withoutRequirements = counts.found
        /\ counts.withoutRequirements
             = Cardinality({i \in DOMAIN tools : NoRequirements(tools[i])})
    /\ pc = "classified" =>
        \A i \in DOMAIN tools :
            (NoRequirements(tools[i]) /\ ~IsInternal(tools[i])) <=> report[i] = CanCallNone

\* C12 witness: a listing with a tool without requires and a tool with empty
\* requires was summarised.
C12_Witness ==
    /\ pc = "summarised"
    /\ \E i, j \in DOMAIN tools :
        /\ ~tools[i].declared
        /\ tools[j].declared /\ tools[j].requires = <<>>
        /\ report[i] = report[j]
    /\ counts.withoutRequirements = 2

\* ------------------------------------------------------------------------
\* Properties of the renegotiation
\* ------------------------------------------------------------------------
\* The deleteUser requests written to the peer.
DeleteUserSends == SelectSeq(SentCalls, LAMBDA f : RequestedTool(f) = "deleteUser")
AnsweredWith(i, body) ==
    /\ i \in DOMAIN promises
    /\ promises[i].state = "resolved"
    /\ promises[i].outcomes[1].frame.body = body

\* The second deleteUser is sent only after the first was answered with isError
\* and the scope update (id 4) was answered.
RetryIsCallerDriven ==
    /\ Len(DeleteUserSends) <= 2
    /\ Len(DeleteUserSends) = 2 =>
        /\ DeleteUserSends[1].id = Num(3) /\ DeleteUserSends[2].id = Num(5)
        /\ AnsweredWith(3, "result:isError")
        /\ promises[4].key = Num(4) /\ promises[4].state = "resolved"
        /\ \E i \in DOMAIN callLog : callLog[i].tool = "_updateClientScopes"

\* Nothing is written while a response is handled or a timer fires, and nothing
\* after the demo ended: every write is a step of the demo function.
NoAutomaticResend ==
    Len(stdin') > Len(stdin) =>
        /\ pc' # pc
        /\ pc \notin {"done", "failed"}
        /\ promises' = promises \/ Len(promises') = Len(promises) + 1

\* C13: renegotiation is caller-driven and bounded: deleteUser is sent at most
\* twice in a run of the OAuth demo, the second time only after the first call
\* returned an isError result and the response to the scope update (id 4) was
\* received, and a failed result never triggers a resend by itself.
C13_BoundedRenegotiation == []RetryIsCallerDriven /\ [][NoAutomaticResend]_vars

\* C13 witness: the retry is on the wire, after the refusal and the update.
C13_Witness ==
    /\ pc = "await5"
    /\ Len(DeleteUserSends) = 2
    /\ AnsweredWith(3, "result:isError")
    /\ promises[4].state = "resolved"
    /\ promises[5].state = "pending"

\* ------------------------------------------------------------------------
\* Properties of the server's scope set
\* ------------------------------------------------------------------------
GatedTools == {"readUserProfile", "deleteUser", "transferFunds"}
Handled(tool) == Len(callLog') = Len(callLog) + 1 /\ callLog'[Len(callLog')].tool = tool

\* C14: handling readUserProfile, deleteUser or transferFunds leaves currentScopes
\* as it is, whether the call is accepted or denied; currentScopes changes only
\* in _updateClientScopes and in the initialisation of main.
C14_ScopesFrame ==
    [][/\ \A tool \in GatedTools : Handled(tool) => currentScopes' = currentScopes
       /\ currentScopes' # currentScopes =>
            \/ Handled("_updateClientScopes")
               /\ currentScopes' = callLog'[Len(callLog')].arg
            \/ srvPc = "starting" /\ srvPc' = "connected"]_vars

\* C14 witness: a gated call was denied, another accepted, and the scope set is
\* the one main set.
C14_Witness ==
    /\ \E i, j \in DOMAIN callLog :
        /\ callLog[i].tool \in GatedTools /\ callLog[i].isError
        /\ callLog[j].tool \in GatedTools /\ ~callLog[j].isError
    /\ \A i \in DOMAIN callLog : callLog[i].tool \in GatedTools
    /\ currentScopes = {"user:read"}

\* The scopes a tool declares, in the order of its declaration.
RECURSIVE LeafValues(_)
LeafValues(req) ==
    IF "allOf" \in DOMAIN req
    THEN IF req.allOf = <<>> THEN <<>>
         ELSE LeafValues(Head(req.allOf)) \o LeafValues(AllOfReq(Tail(req.allOf)))
    ELSE <<req.value>>
DeclaredScopes(name) == LeafValues(AllOfReq(OAuthTools[DeclaredRequires(name)].requires))
Absent(name, scopes) == SelectSeq(DeclaredScopes(name), LAMBDA sc : sc \notin scopes)

\* C15: a denied transferFunds names every declared scope that is missing, not
\* the first one only: the list of missing scopes is the declared scopes absent
\* from the scope set in force, in declaration order, and the call is denied
\* exactly when the list is not empty.
C15_AllMissingReported ==
    \A i \in DOMAIN callLog :
        callLog[i].tool = "transferFunds" =>
            /\ callLog[i].missing = Absent("transferFunds", ScopesInForce(i))
            /\ callLog[i].isError <=> callLog[i].missing # <<>>

\* C15 witness: transferFunds was denied with both scopes missing, and denied
\* with one scope missing.
C15_Witness ==
    \E i, j \in DOMAIN callLog :
        /\ callLog[i].tool = "transferFunds"
        /\ callLog[i].missing = <<"accounts:read", "accounts:write">>
        /\ callLog[j].tool = "transferFunds"
        /\ callLog[j].missing = <<"accounts:write">>

\* ------------------------------------------------------------------------
\* Properties of the evaluation
\* ------------------------------------------------------------------------
\* What a caller can hold besides its scopes.
Contexts ==
    [capabilities : SUBSET {"mcp:sampling"},
     scopes : {clientScopes, clientScopes \cup {"agent:sample_image", "write:sample_storage"}},
     claims : SUBSET {<<"role", "owner">>},
     inputs : {{}}]

\* C16: for every requirement tree and every caller context the verdict of the
\* client is the reference evaluation: allOf is satisfied iff every child is,
\* anyOf iff some child is, not iff its child is not, a top-level sequence iff
\* every element is (so anyOf[claim role=admin, claim role=owner, input
\* imageRepo=write] is satisfied by the claims {role: owner}).
C16_AgreesWithReference ==
    pc = "classified" =>
        \A ctx \in Contexts : \A i \in DOMAIN tools :
            report[i] # "skipped" =>
                (report[i] \in {CanCall, CanCallNone}
                    <=> \A j \in DOMAIN tools[i].requires : Evaluate(tools[i].requires[j], ctx))

\* ------------------------------------------------------------------------
\* Termination of waitForResponse
\* ------------------------------------------------------------------------
\* The OAuth demo with timers that fire: setTimeout callbacks run once their
\* delay has passed.  Nothing is assumed of the peer.
SpecOAuthLive == OAuthInit /\ [][OAuthNext]_vars /\ WF_vars(OAuthTimer)

Pending(i) == i \in DOMAIN promises /\ promises[i].state = "pending"
Terminated(i) ==
    /\ i \in DOMAIN promises
    /\ \/ /\ promises[i].state = "resolved"
          /\ promises[i].timer = "cleared"
          /\ RouteKey(promises[i].outcomes[1].frame) = promises[i].key
       \/ /\ promises[i].state = "rejected"
          /\ promises[i].timer = "fired"
          /\ promises[i].outcomes = <<Timeout>>

\* C17: every waitForResponse call terminates when timers fire: its promise
\* resolves with the response routed to its id before the timer fired, or rejects
\* with the Timeout when the timer fires, also when the peer never answers.
C17_WaitTerminates ==
    \A i \in 1..Cardinality(AwaitStates) : Pending(i) ~> Terminated(i)

\* C17 witness: the peer never read a request, and the wait for the initialize
\* response ended with the Timeout.
C17_Witness ==
    /\ srvRead = 0 /\ stream = <<>> /\ nData = 0
    /\ Len(stdin) >= 1
    /\ Terminated(1) /\ promises[1].state = "rejected"
    /\ pc = "failed"

\* ------------------------------------------------------------------------
\* Order of the write and the registration
\* ------------------------------------------------------------------------
\* Every request written to the peer has a waiter registered under its id.
RequestsAwaited ==
    \A i \in DOMAIN SentFrames :
        SentFrames[i].id # Undefined =>
            HandlerGet(handlers, SentFrames[i].id).kind = "waiter"

\* C19 as stated: the waiter of a request is registered before the request is
\* written: in no state is a request on the wire without a waiter under its id.
C19_WaiterBeforeWrite == RequestsAwaited

\* C19: the demos write the request first and register the waiter next, in the
\* same synchronous run: a request is on the wire without a waiter only between
\* these two statements, and no 'data' event, timer or other event is handled
\* before the waiter is registered.
C19_WaiterBeforeAnyEvent ==
    /\ [](~Sent => RequestsAwaited)
    /\ [][(nData' # nData \/ srvRead' # srvRead \/ (promises' # promises /\ ~Sent))
            => RequestsAwaited]_vars
    /\ [][Sent => (~Sent' /\ Len(promises') = Len(promises) + 1)]_vars

\* C19 witness: the initialize request was written with no waiter registered, the
\* waiter was registered next, and the response reached it.
C19_Witness ==
    /\ pc = "sent2"
    /\ ~RequestsAwaited
    /\ AnsweredWith(1, "result:init")

\* ------------------------------------------------------------------------
\* Properties of the session: concurrent calls and unmatched frames
\* ------------------------------------------------------------------------
\* A 'data' event was handled in this step; routed' holds the frames it routed.
DataHandled == nData' = nData + 1
Outstanding(j) ==
    /\ j \in DOMAIN promises
    /\ promises[j].state = "pending"
    /\ HandlerGet(handlers, promises[j].key) = Waiter(j)
SeveralOutstanding ==
    \E j, k \in DOMAIN promises :
        Outstanding(j) /\ Outstanding(k) /\ promises[j].key # promises[k].key

\* C18: with several calls outstanding under distinct ids, a response is handed
\* to the waiter of the call with its id, whatever else arrives with it
\* (unsolicited requests, orphan responses), and a call whose response did not
\* arrive is left as it was.
C18_ConcurrentCalls ==
    [][(DataHandled /\ SeveralOutstanding) =>
        \A j \in DOMAIN promises :
            Outstanding(j) =>
                IF \E i \in DOMAIN routed' :
                        /\ IsResponseShaped(routed'[i].frame)
                        /\ routed'[i].frame.id = promises[j].key
                THEN /\ promises'[j].state = "resolved"
                     /\ IsResponseShaped(promises'[j].outcomes[1].frame)
                     /\ promises'[j].outcomes[1].frame.id = promises[j].key
                ELSE promises'[j] = promises[j]]_vars

\* A frame that matches nothing registered: a response whose id has no waiter, or
\* a request whose method has no handler.
Unmatched(f) ==
    \/ IsResponseShaped(f) /\ HandlerGet(handlers, f.id).kind # "waiter"
    \/ IsRequestShaped(f) /\ HandlerGet(handlers, f.method).kind # "sampling"

\* C20: a frame that matches no registered waiter or handler is dropped: no
\* handler is invoked for it, and an event that brings only such frames leaves the
\* waiters as they were; the handlers map is left alone and the buffer holds
\* only the text after the last newline.
C20_UnmatchedDropped ==
    [][DataHandled =>
        /\ \A i \in DOMAIN routed' :
            Unmatched(routed'[i].frame) => routed'[i].handler = NoHandler
        /\ (\A i \in DOMAIN routed' : Unmatched(routed'[i].frame)) =>
            (promises' = promises /\ summaries' = summaries)
        /\ handlers' = handlers]_vars

\* ------------------------------------------------------------------------
\* Properties of the server: the scope set in force and the declared requirements
\* ------------------------------------------------------------------------
\* C23: the scope set a tool handler observes is the argument of the most recent
\* _updateClientScopes call, or [user:read] when there was none: an update
\* replaces the whole set, and no call is handled before main set the scopes and
\* connected the transport.
C23_ScopesInForce ==
    /\ \A i \in DOMAIN callLog : callLog[i].scopes = ScopesInForce(i)
    /\ srvPc = "connected" => currentScopes = ScopesInForce(Len(callLog) + 1)
    /\ srvPc # "connected" => (callLog = <<>> /\ currentScopes = {})

\* C23 witness: an update revoked user:read, and the next call was handled without
\* it.
C23_Witness ==
    \E i \in DOMAIN callLog :
        /\ i > 1
        /\ callLog[i - 1].tool = "_updateClientScopes"
        /\ "user:read" \in callLog[i - 1].scopes
        /\ "user:read" \notin callLog[i - 1].arg
        /\ callLog[i].tool = "readUserProfile"
        /\ callLog[i].isError

\* C26: the server enforces what it declares: readUserProfile, deleteUser and
\* transferFunds return a non-error result exactly when the requires sequence
\* the tool declares is satisfied by the scope set in force.
C26_EnforcementIsDeclaration ==
    \A i \in DOMAIN callLog :
        callLog[i].tool \in GatedTools =>
            (~callLog[i].isError
                <=> RequiresSatisfied(OAuthTools[DeclaredRequires(callLog[i].tool)],
                                      callLog[i].scopes))

\* C26 witness: transferFunds was accepted with both account scopes held, and
\* readUserProfile was denied without user:read.
C26_Witness ==
    /\ \E i \in DOMAIN callLog : callLog[i].tool = "transferFunds" /\ ~callLog[i].isError
    /\ \E i \in DOMAIN callLog : callLog[i].tool = "readUserProfile" /\ callLog[i].isError

\* ------------------------------------------------------------------------
\* SimpleOAuthServer: start() and stop()
\* ------------------------------------------------------------------------
Ports == FirstPort..LastPort

\* The code of the 'error' event a bind failure emits.
ErrorCode(p) == IF portState[p] = "busy" THEN "EADDRINUSE" ELSE "EACCES"

\* A promise of start(): pending, and settled through the resolve and reject of
\* its executor. The retry timer of promise `parent` made it, and forwards its
\* outcome with this.start().then(resolve).catch(reject); parent is 0 for the
\* promise the caller of start() holds.
StartPromise(parent) == [state |-> "pending", reason |-> "none", parent |-> parent]

\* resolve or reject of promise k: the first call settles it and is forwarded to
\* the promise that waits for it, a later call does nothing.
RECURSIVE SettleStart(_, _, _, _)
SettleStart(ps, k, state, reason) ==
    IF k = 0 \/ ps[k].state # "pending" THEN ps
    ELSE SettleStart([ps EXCEPT ![k].state = state, ![k].reason = reason],
                     ps[k].parent, state, reason)

\* What SimpleOAuthServer leaves alone.
PortOther == UNCHANGED <<sessionVars, codecVars, clientVars, srvPc, currentScopes, srvRead, callLog>>

\* The body of start(): a new promise, and app.listen(this.port) whose result is
\* stored in this.server and gets the 'error' listener.
Listen(parent) ==
    /\ starts' = Append(starts, StartPromise(parent))
    /\ listeners' = Append(listeners,
                           [port |-> port, state |-> "binding", start |-> Len(starts) + 1])
    /\ httpServer' = Len(listeners) + 1

\* The caller calls start().
PortStart ==
    /\ starts = <<>>
    /\ Listen(0)
    /\ UNCHANGED <<port, retryTimers, stopState, portState, listenPassesError>>
    /\ PortOther

\* The listen callback without an error: resolve().
PortListening(h) ==
    /\ listeners[h].state = "binding"
    /\ portState[listeners[h].port] = "free"
    /\ listeners' = [listeners EXCEPT ![h].state = "listening"]
    /\ starts' = SettleStart(starts, listeners[h].start, "resolved", "none")
    /\ UNCHANGED <<port, httpServer, retryTimers, stopState, portState, listenPassesError>>
    /\ PortOther

\* What the listen callback does with a bind error it is handed: reject(error).
CallbackRejects(ps, k, code) ==
    IF listenPassesError THEN SettleStart(ps, k, "rejected", code) ELSE ps

\* A bind failure: the listen callback (when it is handed the error), then the
\* 'error' listener: EADDRINUSE below port 3020 moves to the next port, resets
\* this.server and arms the retry timer; EADDRINUSE on 3020 and every other error
\* reject.
PortError(h) ==
    LET k == listeners[h].start
        code == ErrorCode(listeners[h].port)
        ps == CallbackRejects(starts, k, code)
    IN  /\ listeners[h].state = "binding"
        /\ portState[listeners[h].port] # "free"
        /\ listeners' = [listeners EXCEPT ![h].state = "failed"]
        /\ IF code = "EADDRINUSE" /\ port < LastPort
           THEN /\ port' = port + 1
                /\ httpServer' = 0
                /\ retryTimers' = retryTimers \cup {k}
                /\ starts' = ps
           ELSE /\ starts' = SettleStart(ps, k, "rejected",
                                         IF code = "EADDRINUSE" THEN "NoPort" ELSE code)
                /\ UNCHANGED <<port, httpServer, retryTimers>>
        /\ UNCHANGED <<stopState, portState, listenPassesError>>
        /\ PortOther

\* The retry timer of promise k fires: this.start().then(resolve).catch(reject).
PortRetry(k) ==
    /\ k \in retryTimers
    /\ retryTimers' = retryTimers \ {k}
    /\ Listen(k)
    /\ UNCHANGED <<port, stopState, portState, listenPassesError>>
    /\ PortOther

\* stop(), called once start() was: close this.server when there is one, resolve
\* at once when there is none.
PortStop ==
    /\ stopState = "none"
    /\ starts # <<>>
    /\ IF httpServer = 0
       THEN /\ stopState' = "resolved"
            /\ UNCHANGED listeners
       ELSE /\ stopState' = "closing"
            /\ listeners' = [listeners EXCEPT ![httpServer].state =
                                IF @ \in {"binding", "listening"} THEN "closing" ELSE @]
    /\ UNCHANGED <<port, httpServer, starts, retryTimers, portState, listenPassesError>>
    /\ PortOther

\* The callback of close(): resolve().
PortClosed ==
    /\ stopState = "closing"
    /\ stopState' = "resolved"
    /\ listeners' = [h \in DOMAIN listeners |->
                        IF listeners[h].state = "closing"
                        THEN [listeners[h] EXCEPT !.state = "closed"]
                        ELSE listeners[h]]
    /\ UNCHANGED <<port, httpServer, starts, retryTimers, portState, listenPassesError>>
    /\ PortOther

\* The environment of one run: the ports from 3010 up to some port are busy, the
\* next one is free or refuses the bind for another reason; start() never binds a
\* port above the first one that is not busy.
PortStates ==
    {[p \in Ports |-> IF p < first THEN "busy" ELSE IF p = first THEN kind ELSE "free"] :
        first \in FirstPort..(LastPort + 1), kind \in {"free", "denied"}}

PortInit ==
    /\ server = "null"
    /\ killed = FALSE
    /\ alive = FALSE
    /\ buffer = <<>>
    /\ handlers = [k \in {} |-> NoHandler]
    /\ promises = <<>>
    /\ stdin = <<>>
    /\ routed = <<>>
    /\ errlog = 0
    /\ summaries = 0
    /\ thrown = "none"
    /\ atExit = [exited |-> FALSE, pending |-> {}, sends |-> 0]
    /\ nData = 0
    /\ CodecIdle
    /\ DemoIdle
    /\ ScriptIdle
    /\ port = FirstPort
    /\ httpServer = 0
    /\ listeners = <<>>
    /\ starts = <<>>
    /\ retryTimers = {}
    /\ stopState = "none"
    /\ portState \in PortStates
    /\ listenPassesError \in BOOLEAN

PortBound == \E h \in DOMAIN listeners : PortListening(h)

PortFailed == \E h \in DOMAIN listeners : PortError(h)

PortRetried == \E k \in retryTimers : PortRetry(k)

PortNext ==
    \/ PortStart
    \/ PortBound
    \/ PortFailed
    \/ PortRetried
    \/ PortStop
    \/ PortClosed

SpecPorts == PortInit /\ [][PortNext]_vars

\* ------------------------------------------------------------------------
\* Properties of SimpleOAuthServer
\* ------------------------------------------------------------------------
\* The ports from 3010 on are busy up to a free one.
FreePorts == {p \in Ports : portState[p] = "free" /\ \A q \in FirstPort..(p - 1) : portState[q] = "busy"}
LowestFree == CHOOSE p \in FreePorts : \A q \in FreePorts : p <= q
Listening == {h \in DOMAIN listeners : listeners[h].state = "listening"}

\* C24: with port 3010 busy and a free port in the retry range, the promise the
\* caller of start() holds is never rejected, and once resolved the server
\* listens on the lowest free port; a bind error other than EADDRINUSE rejects
\* the promise of that attempt, and no retry follows.
C24_RetryResolves ==
    /\ (starts # <<>> /\ portState[FirstPort] = "busy" /\ FreePorts # {}) =>
            /\ starts[1].state # "rejected"
            /\ (starts[1].state = "resolved" /\ stopState = "none") =>
                    \E h \in Listening : httpServer = h /\ listeners[h].port = LowestFree
    /\ \A h \in DOMAIN listeners :
            (listeners[h].state = "failed" /\ portState[listeners[h].port] = "denied") =>
                /\ starts[listeners[h].start].state = "rejected"
                /\ retryTimers = {}
                /\ Len(listeners) = h

\* C25: start() tries at most 10 ports from 3010 on, each higher than the one
\* before and none above 3020, and with every one of them busy the promise is
\* rejected with 'Could not find available port after trying 3010-3020'.
C25_BoundedRetry ==
    /\ Len(listeners) <= 10
    /\ port <= LastPort
    /\ \A h \in DOMAIN listeners : h > 1 => listeners[h].port > listeners[h - 1].port
    /\ (starts # <<>> /\ starts[1].state = "rejected"
            /\ \A p \in Ports : portState[p] = "busy") => starts[1].reason = "NoPort"

\* C27: once the promise of stop() is resolved, no server of the instance is
\* bound or about to be, whatever start() was doing when stop() was called.
C27_StoppedStaysStopped ==
    stopState = "resolved" =>
        \A h \in DOMAIN listeners : listeners[h].state \notin {"binding", "listening"}

\* ------------------------------------------------------------------------
\* runErrorDemo and runRequirementsDemo
\* ------------------------------------------------------------------------
\* The tool toolWithSampleServer lists: summarize, with no requires member.
SampleTools == << [name |-> "summarize", declared |-> FALSE, requires |-> <<>>] >>

\* The tools toolWithRequirementsServer registers, each with its requires member.
RequirementsTools ==
    << [name |-> "summarize", declared |-> TRUE,
        requires |-> <<CapabilityReq("mcp:sampling")>>],
       [name |-> "imageGenerator", declared |-> TRUE, requires |-> ImageGeneratorRequires],
       [name |-> "basicCalculator", declared |-> TRUE, requires |-> <<>>],
       [name |-> "legacyFileManager", declared |-> FALSE, requires |-> <<>>],
       [name |-> "modernFileManager", declared |-> TRUE,
        requires |-> << ScopeReq("filesystem:access"),
                        AnyOfReq(<< InputReq("action", "read"),
                                    ScopeReq("filesystem:write") >>) >>] >>

\* toolsResult.tools.find(tool => tool.name === 'summarize')
HasSummarize(list) == \E i \in DOMAIN list : list[i].name = "summarize"

\* runErrorDemo: the tools/list result passed validators.tools; every listed tool
\* is printed with 'Requirements: None declared'.
ErrorToolsListed ==
    /\ demo = "error"
    /\ pc = "await2" /\ Resolved /\ ResolvedBody = "result:tools"
    /\ tools' = SampleTools
    /\ report' = [i \in DOMAIN tools' |-> "Requirements: None declared"]
    /\ IF HasSummarize(tools')
       THEN pc' = "sleepE" /\ UNCHANGED sessionVars
       ELSE pc' = "done" /\ Finally
    /\ UNCHANGED <<clientScopes, hasRestrictedTools, toolCalls, counts, mainVars, codecVars,
                   serverVars>>

\* handler.send(createMessage.toolCall('summarize', ...))
ErrorCallSummarize ==
    /\ demo = "error"
    /\ pc = "sleepE"
    /\ pc' = "called"
    /\ Send(ToolCallMessage("summarize", Num(3)))
    /\ UNCHANGED <<clientScopes, hasRestrictedTools, toolCalls, listingVars, mainVars,
                   codecVars, serverVars>>

\* handler.onResponse('sampling/createMessage', () => { ...; showProblemSummary() })
ErrorOnResponse ==
    /\ pc = "called"
    /\ pc' = "sent3"
    /\ OnResponse(Str(SamplingMethod), SamplingCallback)
    /\ UNCHANGED <<clientScopes, hasRestrictedTools, toolCalls, listingVars, mainVars,
                   codecVars, serverVars>>

\* await handler.waitForResponse(3, 3000) resolved: the demo returns.
ErrorCallAnswered ==
    /\ demo = "error"
    /\ pc = "await3" /\ Resolved
    /\ pc' = "done"
    /\ Finally
    /\ UNCHANGED <<clientScopes, hasRestrictedTools, toolCalls, listingVars, mainVars,
                   codecVars, serverVars>>

\* await handler.waitForResponse(3, 3000) rejected: the inner catch block calls
\* showProblemSummary(), the demo returns through finally { handler.kill() }.
ErrorCallTimedOut ==
    /\ demo = "error"
    /\ pc = "await3" /\ Rejected
    /\ pc' = "done"
    /\ summaries' = summaries + 1
    /\ killed' = (killed \/ server = "spawned")
    /\ UNCHANGED <<server, alive, buffer, handlers, promises, stdin, routed, errlog,
                   thrown, atExit, nData>>
    /\ UNCHANGED <<clientScopes, hasRestrictedTools, toolCalls, listingVars, mainVars,
                   codecVars, serverVars>>

\* runRequirementsDemo: the tools/list result passed validators.tools; display.tool
\* for each tool, the summary, and the demo returns.
RequirementsToolsListed ==
    /\ demo = "requirements"
    /\ pc = "await2" /\ Resolved /\ ResolvedBody = "result:tools"
    /\ tools' = RequirementsTools
    /\ report' = [i \in DOMAIN tools' |-> DisplayTool(tools'[i])]
    /\ counts' = Summary(tools')
    /\ pc' = "done"
    /\ Finally
    /\ UNCHANGED <<clientScopes, hasRestrictedTools, toolCalls, mainVars, codecVars,
                   serverVars>>

\* The 'error' event of the child process: start() rejects, the demo throws, and
\* kill() in the finally block finds no process to signal.
DemoSpawnFails ==
    /\ pc = "starting"
    /\ srvPc = "starting"
    /\ pc' = "failed"
    /\ server' = "failed"
    /\ alive' = FALSE
    /\ UNCHANGED <<killed, buffer, handlers, promises, stdin, routed, errlog, summaries,
                   thrown, atExit, nData>>
    /\ UNCHANGED <<clientScopes, hasRestrictedTools, toolCalls, listingVars, mainVars,
                   codecVars, serverVars>>

\* ------------------------------------------------------------------------
\* The peers of the error and the requirements demo
\* ------------------------------------------------------------------------
\* console.log("MCP server with requirements is running...") on the peer's stdout.
Banner == <<"MCP server with requirements is running...", "NL">>

\* The request the peer sends for sampling, under an id of its own.
SamplingRequest == Frame(Num(0), Str(SamplingMethod), "params:sampling")

\* What the peer may write on request f: the result of initialize and of
\* tools/list (toolWithSampleServer may list in a shape validators.tools
\* refuses); on the call of summarize the sampling request, a result, or both.
StdioOutputs(f) ==
    IF f.method = Str("initialize") THEN {<<Frame(f.id, Undefined, "result:init")>>}
    ELSE IF f.method = Str("tools/list")
    THEN {<<Frame(f.id, Undefined, "result:tools")>>}
         \cup (IF demo = "error" THEN {<<Frame(f.id, Undefined, "result:badshape")>>} ELSE {})
    ELSE IF f.method = Str("tools/call")
    THEN {<<SamplingRequest>>,
          <<Frame(f.id, Undefined, "result:isError")>>,
          <<SamplingRequest, Frame(f.id, Undefined, "result:ok")>>}
    ELSE {<<>>}

RECURSIVE EncodeLines(_)
EncodeLines(fs) == IF fs = <<>> THEN <<>> ELSE Encode(Line(Head(fs))) \o EncodeLines(Tail(fs))

\* main() of the peer: connect the transport; toolWithRequirementsServer then
\* logs a line on its stdout.
StdioPeerStarts ==
    /\ demo # "oauth"
    /\ alive /\ ~Busy
    /\ srvPc = "starting"
    /\ srvPc' = "connected"
    /\ stream' = IF demo = "requirements" THEN stream \o Banner ELSE stream
    /\ UNCHANGED <<currentScopes, srvRead, callLog, portVars, original, parsed, cut, splits,
                   sessionVars, clientVars>>

\* The peer reads the next line of its stdin and writes what it answers.
StdioPeerHandles ==
    /\ demo # "oauth"
    /\ alive /\ srvPc = "connected" /\ ~Busy
    /\ srvRead < Len(stdin)
    /\ srvRead' = srvRead + 1
    /\ \E out \in StdioOutputs(ReadMessage(stdin[srvRead + 1])) :
            stream' = stream \o EncodeLines(out)
    /\ UNCHANGED <<srvPc, currentScopes, callLog, portVars, original, parsed, cut, splits,
                   sessionVars, clientVars>>

\* ------------------------------------------------------------------------
\* main(): the three demos in sequence, and the exit of the process
\* ------------------------------------------------------------------------
NextDemo == [error |-> "requirements", requirements |-> "oauth"]

\* await sleep(1000), then the next demo function up to new ServerHandler(...):
\* a new handler, a new peer to be spawned.
MainNextDemo ==
    /\ mainPc = "running" /\ pc = "done" /\ demo \in DOMAIN NextDemo
    /\ demo' = NextDemo[demo]
    /\ pc' = "new"
    /\ server' = "null" /\ killed' = FALSE /\ alive' = FALSE /\ buffer' = <<>>
    /\ handlers' = [k \in {} |-> NoHandler]
    /\ promises' = <<>> /\ stdin' = <<>> /\ routed' = <<>>
    /\ errlog' = 0 /\ summaries' = 0 /\ thrown' = "none"
    /\ atExit' = [exited |-> FALSE, pending |-> {}, sends |-> 0]
    /\ nData' = 0
    /\ stream' = <<>> /\ original' = <<>> /\ parsed' = <<>> /\ cut' = FALSE /\ splits' = FALSE
    /\ clientScopes' = {} /\ hasRestrictedTools' = FALSE /\ toolCalls' = <<>>
    /\ tools' = <<>> /\ report' = <<>>
    /\ counts' = [found |-> 0, withRequirements |-> 0, withoutRequirements |-> 0]
    /\ srvPc' = "starting" /\ currentScopes' = {} /\ srvRead' = 0 /\ callLog' = <<>>
    /\ UNCHANGED <<mainPc, cleaned, portVars>>

\* cleanup(): SIGTERM to every process of activeProcesses not signalled yet.
Cleanup ==
    /\ cleaned' = TRUE
    /\ Kill

\* The OAuth demo returned: the finally block of main() runs cleanup() and
\* process.exit(0).
MainCompleted ==
    /\ mainPc = "running" /\ pc = "done" /\ demo = "oauth"
    /\ mainPc' = "exit0"
    /\ Cleanup
    /\ UNCHANGED <<pc, demo, clientScopes, hasRestrictedTools, toolCalls, listingVars,
                   codecVars, serverVars>>

\* A demo threw: the catch block of main() calls process.exit(1).
MainFailed ==
    /\ mainPc = "running" /\ pc = "failed"
    /\ mainPc' = "exit1"
    /\ UNCHANGED <<pc, demo, cleaned, clientScopes, hasRestrictedTools, toolCalls,
                   listingVars, sessionVars, codecVars, serverVars>>

\* SIGINT or SIGTERM: cleanup() and process.exit(0).
MainSignal ==
    /\ mainPc = "running" /\ ~Busy
    /\ mainPc' = "exit0"
    /\ pc' = "exited"
    /\ Cleanup
    /\ UNCHANGED <<demo, clientScopes, hasRestrictedTools, toolCalls, listingVars,
                   codecVars, serverVars>>

MainInit ==
    /\ server = "null"
    /\ killed = FALSE
    /\ alive = FALSE
    /\ buffer = <<>>
    /\ handlers = [k \in {} |-> NoHandler]
    /\ promises = <<>>
    /\ stdin = <<>>
    /\ routed = <<>>
    /\ errlog = 0
    /\ summaries = 0
    /\ thrown = "none"
    /\ atExit = [exited |-> FALSE, pending |-> {}, sends |-> 0]
    /\ nData = 0
    /\ CodecIdle
    /\ pc = "new"
    /\ clientScopes = {}
    /\ hasRestrictedTools = FALSE
    /\ toolCalls = <<>>
    /\ tools = <<>>
    /\ report = <<>>
    /\ counts = [found |-> 0, withRequirements |-> 0, withoutRequirements |-> 0]
    /\ demo = "error"
    /\ mainPc = "running"
    /\ cleaned = FALSE
    /\ ServerIdle

MainNext ==
    \/ DemoStart \/ DemoSpawnFails \/ DemoInitialize \/ DemoWaitForResponse
    \/ DemoInitialized \/ DemoListTools \/ DemoThrows
    \/ ErrorToolsListed \/ ErrorCallSummarize \/ ErrorOnResponse
    \/ ErrorCallAnswered \/ ErrorCallTimedOut
    \/ RequirementsToolsListed
    \/ DemoToolsListed \/ DemoCallDeleteUser \/ DemoCallAnswered
    \/ DemoUpdateScopes \/ DemoScopesUpdated \/ DemoRetryDeleteUser \/ DemoRetryAnswered
    \/ StdioPeerStarts \/ StdioPeerHandles
    \/ OAuthPeerHandles \/ OAuthServerStarts \/ OAuthServerFails
    \/ OAuthPeerKilled \/ OAuthData \/ OAuthTimer
    \/ MainNextDemo \/ MainCompleted \/ MainFailed \/ MainSignal

SpecMain == MainInit /\ [][MainNext]_vars

\* ------------------------------------------------------------------------
\* Properties of the three demos and of main()
\* ------------------------------------------------------------------------
\* C21: within one session no two requests are sent under the same id, the ids
\* are among 1..5, and notifications/initialized, and nothing else, carries no id.
C21_UniqueIds ==
    /\ \A i, j \in DOMAIN stdin :
            (i < j /\ SentFrames[i].id # Undefined) => SentFrames[i].id # SentFrames[j].id
    /\ \A i \in DOMAIN stdin :
            /\ SentFrames[i].id \in {Undefined, Num(1), Num(2), Num(3), Num(4), Num(5)}
            /\ SentFrames[i].id = Undefined
                   <=> SentFrames[i].method = Str("notifications/initialized")

\* C21 witness: the OAuth demo, run third by main(), has sent its five requests and
\* the notification.
C21_Witness ==
    /\ mainPc = "running" /\ demo = "oauth"
    /\ Len(stdin) = 6
    /\ SentFrames[6].id = Num(5)

\* Step n of the handshake failed: its wait was rejected, or the result it
\* resolved with does not pass the validator of the step.
StepFailed(n) ==
    /\ n \in DOMAIN promises
    /\ \/ promises[n].state = "rejected"
       \/ /\ promises[n].state = "resolved"
          /\ n \in {1, 2}
          /\ promises[n].outcomes[1].frame.body # <<"result:init", "result:tools">>[n]
StepValidated(n) ==
    /\ n \in DOMAIN promises
    /\ promises[n].state = "resolved"
    /\ promises[n].outcomes[1].frame.body = <<"result:init", "result:tools">>[n]
\* The frames sent when the wait of step n begins.
FramesAtStep(n) == IF n = 1 THEN 1 ELSE n + 1

\* C22: in every demo initialize is the first frame; notifications/initialized
\* follows only a validated initialize result, tools/list comes third, and a
\* tools/call follows only a validated tools/list result; after a step that
\* timed out or failed validation no further frame is sent.
C22_HandshakeOrder ==
    /\ Len(stdin) >= 1 => SentFrames[1] = InitMessage
    /\ Len(stdin) >= 2 => (SentFrames[2] = InitializedMessage /\ StepValidated(1))
    /\ Len(stdin) >= 3 => SentFrames[3] = ToolsListMessage
    /\ Len(stdin) >= 4 =>
            /\ StepValidated(2)
            /\ \A i \in 4..Len(stdin) : SentFrames[i].method = Str("tools/call")
    /\ \A n \in DOMAIN promises : StepFailed(n) => Len(stdin) <= FramesAtStep(n)

\* C22 witness: the tools/list result of the error demo failed validation, the
\* demo threw with three frames sent.
C22_Witness ==
    /\ demo = "error" /\ pc = "failed"
    /\ StepValidated(1)
    /\ StepFailed(2) /\ promises[2].state = "resolved"
    /\ Len(stdin) = 3

\* C28: in one run of the error demo showProblemSummary() is called at most once.
C28_SummaryOnce == demo = "error" => summaries <= 1

\* C29: when a demo function has returned or thrown, the peer it spawned has been
\* sent SIGTERM (a spawn that failed left no process), and the next demo begins
\* only then.
C29_KilledBeforeReturn ==
    /\ [](pc \in {"done", "failed"} => (killed \/ server = "failed"))
    /\ [][demo' # demo => (killed \/ server = "failed")]_vars

\* C29 witness: the requirements demo, begun after the peer of the error demo was
\* killed, threw on a timed-out wait with its own peer killed.
C29_Witness ==
    /\ demo = "requirements" /\ pc = "failed"
    /\ server = "spawned" /\ killed
    /\ \E n \in DOMAIN promises : promises[n].state = "rejected"

\* C30: the demos run in the order error, requirements, OAuth, each after the one
\* before returned; the process exits with code 1 exactly when a demo threw; a
\* timeout of the error demo's tools/call wait lets the demo return; and
\* cleanup() has run whenever the process has exited.
C30_MainSequence ==
    /\ [](mainPc \in {"exit0", "exit1"} => cleaned)
    /\ [](mainPc = "exit1" => pc = "failed")
    /\ []((mainPc = "exit0" /\ pc # "exited") => (pc = "done" /\ demo = "oauth"))
    /\ []((demo = "error" /\ 3 \in DOMAIN promises /\ pc \notin {"sent3", "await3"})
              => pc \in {"done", "exited"})
    /\ [][demo' # demo => (pc = "done" /\ demo' = NextDemo[demo])]_vars

====
